---- MODULE Spec2Model ----
(***************************************************************************)
(* FluxCal: the continuous energy-balance engine (client anchor in         *)
(* Home.tsx, persisted anchor in storage.ts), the fasting stage classifier *)
(* and the fasting summary aggregator (POST /api/fasting/recalculate).     *)
(*                                                                         *)
(* Instants are integers in milliseconds, as Date.getTime() gives them.    *)
(* Durations the code holds as fractional hours or seconds are held here   *)
(* in milliseconds, which is exact; Math.round(seconds) is RoundSeconds.   *)
(***************************************************************************)
EXTENDS Integers, Sequences, FiniteSets, TLC

VARIABLES
    clock,          \* server wall clock, what new Date() reads
    tz,             \* local time = UTC + tz (setHours works in local time)
    foodItems,      \* table food_items of the user: rows [id, timestamp]
    nextFoodId,     \* autoincrement of food_items.id
    trackingStart,  \* users.fastingTrackingStartDate (NULL or an instant)
    summaries,      \* table fasting_state_summaries of the user
    lastPass,       \* what the last POST /api/fasting/recalculate computed
    prevPass,       \* the pass before it, when nothing changed in between
    passes,         \* passes run in succession with nothing in between
    changes,        \* requests so far that changed the food log, the clock or the user
    call,           \* pure functions: the arguments of the last call
    ret,            \* pure functions: what it returned
    balanceAnchorValue,      \* Home: the balance as of balanceAnchorTimestamp
    balanceAnchorTimestamp,  \* Home: client time of the anchor
    anchorInitialized,       \* Home: the anchor has been loaded
    stats,          \* Home: tdee and dailyGoalCalories of the stats state
    effect,         \* Home: what the mount effect captured when it last ran
    localStorage,   \* the fluxcal_energy_balance item
    user,           \* users row: cumulativeNetCalories, lastBalanceUpdateDate, goal
    patches,        \* PATCH /api/user/update-balance requests under way
    hist,           \* the last energy event and what was displayed before it
    budget,         \* food events and reloads so far
    mostRecentMealTimestamp, \* Home: the timestamp GET /api/food/last gave, or null
    foods,          \* Home: the entries of foods and activityFoods
    lastFetches     \* GET /api/food/last responses on their way to the page

vars == <<clock, tz, foodItems, nextFoodId, trackingStart, summaries,
          lastPass, prevPass, passes, changes, call, ret,
          balanceAnchorValue, balanceAnchorTimestamp, anchorInitialized, stats,
          effect, localStorage, user, patches, hist, budget,
          mostRecentMealTimestamp, foods, lastFetches>>

fastingVars == <<clock, tz, foodItems, nextFoodId, trackingStart, summaries,
                 lastPass, prevPass, passes, changes>>
pureVars == <<call, ret>>
homeVars == <<mostRecentMealTimestamp, foods, lastFetches>>
energyVars == <<balanceAnchorValue, balanceAnchorTimestamp, anchorInitialized, stats,
                effect, localStorage, user, patches, hist, budget>>

\* null and undefined: no instant is negative
NULL == 0 - 1
Undefined == 0 - 2

Max(a, b) == IF a >= b THEN a ELSE b
Min(a, b) == IF a <= b THEN a ELSE b

SecondMs == 1000
HourMs == 3600000
DayMs == 86400000

\* Math.round of a number of seconds held in milliseconds (half rounds up)
RoundSeconds(ms) == (ms + 500) \div SecondMs

(***************************************************************************)
(* Fasting stages                                                          *)
(***************************************************************************)
stageNames == <<"fed", "postAbsorptive", "fatBurning", "deepKetosis", "autophagy">>

\* stands for Infinity, the end of the last stage; above every duration here
Infinity == 2000000000

\* const stageBoundaries = [0, 4, 8, 12, 16, Infinity], in hours
stageBoundaries == <<0, 4, 8, 12, 16>>

\* the last stage closed at 24 hours in place of Infinity
StageBoundaryMs_ClosedAtDay(i) == IF i > Len(stageBoundaries) THEN 24 * HourMs
                                  ELSE stageBoundaries[i] * HourMs

StageBoundaryMs(i) == IF i > Len(stageBoundaries) THEN Infinity
                      ELSE stageBoundaries[i] * HourMs

ZeroDurations == [s \in {stageNames[i] : i \in 1..5} |-> 0]

\* hours assumed since the last meal when there is none ("deep into fasting")
NoMealHours == 24

\* the Fed stage ending an hour late
AllocateBoundaryAt_FedLate(i) == StageBoundaryMs(i) + (IF i = 2 THEN HourMs ELSE 0)

\* stageBoundaries[i] as the allocation reads it
AllocateBoundaryAt(i) == StageBoundaryMs(i)

\* allocateFastingTimeWithOffset: adds to result the overlap of the window,
\* measured in time since lastMeal, with each stage
AllocateFastingTimeWithOffset(lastMeal, windowStart, windowEnd, result) ==
    IF windowEnd <= windowStart THEN result
    ELSE
      LET hoursSinceMealAtStart ==
              IF lastMeal # NULL THEN windowStart - lastMeal
              ELSE NoMealHours * HourMs
          hoursSinceMealAtEnd ==
              IF lastMeal # NULL THEN windowEnd - lastMeal
              ELSE hoursSinceMealAtStart + (windowEnd - windowStart)
          Added(i) ==
              LET overlapStart == Max(hoursSinceMealAtStart, AllocateBoundaryAt(i))
                  overlapEnd == Min(hoursSinceMealAtEnd, AllocateBoundaryAt(i + 1))
              IN IF overlapEnd > overlapStart THEN overlapEnd - overlapStart ELSE 0
          IndexOf(s) == CHOOSE i \in 1..5 : stageNames[i] = s
      IN [s \in DOMAIN result |-> result[s] + Added(IndexOf(s))]

(***************************************************************************)
(* Fasting stage classifier (client)                                       *)
(***************************************************************************)
\* the thresholds of getFastingStage, in hours
ClassifierHours == <<4, 8, 12, 16>>

\* a threshold compared with <= in place of <
ClassifierLimit_Inclusive(i) == ClassifierHours[i] * HourMs + 1

ClassifierLimit(i) == ClassifierHours[i] * HourMs

\* getFastingStage with lastMealTime and now; hoursSinceLastMeal < 4 is
\* now - lastMealTime < 4 hours in milliseconds
GetFastingStage(lastMealTime, now) ==
    LET hoursSinceLastMeal ==
            IF lastMealTime # NULL /\ lastMealTime # 0 THEN now - lastMealTime ELSE 0
    IN IF lastMealTime = NULL \/ lastMealTime = 0 THEN "Awaiting Entry"
       ELSE IF hoursSinceLastMeal < ClassifierLimit(1) THEN "Fed"
       ELSE IF hoursSinceLastMeal < ClassifierLimit(2) THEN "Post-Absorptive"
       ELSE IF hoursSinceLastMeal < ClassifierLimit(3) THEN "Fat Burning"
       ELSE IF hoursSinceLastMeal < ClassifierLimit(4) THEN "Deep Ketosis"
       ELSE "Autophagy"

(***************************************************************************)
(* Dates (server)                                                          *)
(***************************************************************************)
\* an integer column in mode "timestamp" holds whole epoch seconds
StoreTimestamp(t) == IF t = NULL THEN NULL ELSE (t \div SecondMs) * SecondMs

\* d.setHours(0, 0, 0, 0): midnight of d's local calendar day
LocalMidnight(t) == ((t + tz) \div DayMs) * DayMs - tz

\* d.setHours(23, 59, 59, 999)
EndOfDay(t) == LocalMidnight(t) + DayMs - 1

\* d.setDate(d.getDate() + n)
AddDays(t, n) == t + n * DayMs

\* formatDateLocal(d): the local calendar day, as a day number
FormatDateLocal(t) == (t + tz) \div DayMs

\* d.toISOString().split('T')[0]: the UTC calendar day, as a day number
\* (YYYY-MM-DD strings compare as their day numbers do)
ISODate(t) == t \div DayMs

\* rows kept, days recomputed and days of food read by a pass
RetentionDays == 14
QueryDays == 15

(***************************************************************************)
(* Storage (DatabaseStorage)                                               *)
(***************************************************************************)
RECURSIVE SortFoodItems(_)
\* [...foodItems].sort((a, b) => a.timestamp - b.timestamp), rows in id order
SortFoodItems(items) ==
    IF items = {} THEN <<>>
    ELSE LET first == CHOOSE x \in items : \A y \in items :
                          \/ x.timestamp < y.timestamp
                          \/ (x.timestamp = y.timestamp /\ x.id <= y.id)
         IN <<first>> \o SortFoodItems(items \ {first})

RECURSIVE SortInstants(_)
\* [...dayMeals].sort((a, b) => a.getTime() - b.getTime()): insertion of the
\* head into the sorted tail
SortInstants(meals) ==
    IF meals = <<>> THEN <<>>
    ELSE LET rest == SortInstants(Tail(meals))
             before == SelectSeq(rest, LAMBDA m : m < Head(meals))
             after == SelectSeq(rest, LAMBDA m : m >= Head(meals))
         IN before \o <<Head(meals)>> \o after

GetFoodItemsInRange(items, startDate, endDate) ==
    {f \in items : /\ f.timestamp >= StoreTimestamp(startDate)
                   /\ f.timestamp < StoreTimestamp(endDate)}

DeleteFastingSummariesBefore_DayLate(table, cutoffDate) ==
    {r \in table : ~(r.date < ISODate(cutoffDate) - 1)}
DeleteFastingSummariesBefore(table, cutoffDate) ==
    {r \in table : ~(r.date < ISODate(cutoffDate))}

\* an insert whatever the table holds
UpsertFastingSummary_Insert(table, data) == table \cup {data}

\* select the rows of (user, date); update the first if any, else insert
UpsertFastingSummary(table, data) ==
    LET existing == {r \in table : r.date = data.date}
    IN IF existing # {}
       THEN LET first == CHOOSE r \in existing : TRUE
            IN (table \ {first}) \cup {data}
       ELSE table \cup {data}

(***************************************************************************)
(* Fasting summary aggregator                                              *)
(***************************************************************************)
RECURSIVE WalkMeals(_, _, _, _)
\* the for loop of calculateFastingDurationsForDay
WalkMeals(sortedDayMeals, lastMealTime, currentTime, result) ==
    IF sortedDayMeals = <<>>
    THEN [lastMealTime |-> lastMealTime, currentTime |-> currentTime, result |-> result]
    ELSE LET meal == Head(sortedDayMeals)
         IN WalkMeals(Tail(sortedDayMeals), meal, meal,
                AllocateFastingTimeWithOffset(lastMealTime, currentTime, meal, result))

CalculateFastingDurationsForDay(lastMealBeforeDayStart, dayMeals, dayStart, dayEnd) ==
    LET walked == WalkMeals(SortInstants(dayMeals), lastMealBeforeDayStart,
                            dayStart, ZeroDurations)
    IN AllocateFastingTimeWithOffset(walked.lastMealTime, walked.currentTime,
                                     dayEnd, walked.result)

\* const dayEnd = isToday ? now : 23:59:59.999 of the day
DayEndOf(dayStart, now) ==
    IF LocalMidnight(dayStart) = LocalMidnight(now) THEN now ELSE EndOfDay(dayStart)

\* autophagySeconds: isTrackingStartDate ? 0 : Math.round(durations.autophagy)
\* the start day's autophagy stored as computed
AutophagySecondsOf_AsComputed(isTrackingStartDate, durations) ==
    RoundSeconds(durations.autophagy)

AutophagySecondsOf(isTrackingStartDate, durations) ==
    IF isTrackingStartDate THEN 0 ELSE RoundSeconds(durations.autophagy)

\* the "last meal" the day's walk starts from: the last meal before the day,
\* else the tracking-start instant when it is before or within the day
EffectiveLastMealBefore(lastMealBefore, originalTrackingTimestamp, dayStart, dayEnd) ==
    IF lastMealBefore = NULL /\ originalTrackingTimestamp # NULL
    THEN IF originalTrackingTimestamp < dayStart THEN originalTrackingTimestamp
         ELSE IF originalTrackingTimestamp >= dayStart /\ originalTrackingTimestamp <= dayEnd
              THEN originalTrackingTimestamp
              ELSE lastMealBefore
    ELSE lastMealBefore

\* the instant the day's walk starts at
EffectiveDayStart(lastMealBefore, originalTrackingTimestamp, trackingStartDate, dayMeals, dayStart, dayEnd) ==
    LET effectiveLastMealBefore ==
            EffectiveLastMealBefore(lastMealBefore, originalTrackingTimestamp,
                                    dayStart, dayEnd)
        fromTracking ==
            IF /\ lastMealBefore = NULL /\ originalTrackingTimestamp # NULL
               /\ ~(originalTrackingTimestamp < dayStart)
               /\ originalTrackingTimestamp >= dayStart
               /\ originalTrackingTimestamp <= dayEnd
            THEN originalTrackingTimestamp
            ELSE dayStart
    IN IF dayStart = trackingStartDate /\ effectiveLastMealBefore = NULL
          /\ Len(dayMeals) > 0
       THEN dayMeals[1]
       ELSE fromTracking

\* const dayStart = new Date(); setDate(getDate() - i); setHours(0, 0, 0, 0)
DayStartOf(i, now) == LocalMidnight(AddDays(now, 0 - i))

\* the body of the day loop of POST /api/fasting/recalculate for a day that
\* is not skipped
RecalculateDay(dayStart, now, sortedFoodItems, originalTrackingTimestamp, trackingStartDate) ==
    LET dayEnd == DayEndOf(dayStart, now)
        timestamps == [k \in 1..Len(sortedFoodItems) |-> sortedFoodItems[k].timestamp]
        dayMeals == SelectSeq(timestamps, LAMBDA t : t >= dayStart /\ t <= dayEnd)
        before == SelectSeq(timestamps, LAMBDA t : t < dayStart)
        lastMealBefore == IF before = <<>> THEN NULL ELSE before[Len(before)]
        effectiveLastMealBefore ==
            EffectiveLastMealBefore(lastMealBefore, originalTrackingTimestamp,
                                    dayStart, dayEnd)
        effectiveDayStart ==
            EffectiveDayStart(lastMealBefore, originalTrackingTimestamp,
                              trackingStartDate, dayMeals, dayStart, dayEnd)
        durations == CalculateFastingDurationsForDay(effectiveLastMealBefore, dayMeals,
                                                     effectiveDayStart, dayEnd)
        isTrackingStartDate == dayStart = trackingStartDate
    IN [dayStart |-> dayStart,
        dayEnd |-> dayEnd,
        dayMeals |-> dayMeals,
        lastMealBefore |-> lastMealBefore,
        effectiveLastMealBefore |-> effectiveLastMealBefore,
        effectiveDayStart |-> effectiveDayStart,
        isTrackingStartDate |-> isTrackingStartDate,
        durations |-> durations,
        row |-> [date |-> ISODate(dayStart),
                 fedSeconds |-> RoundSeconds(durations.fed),
                 postAbsorptiveSeconds |-> RoundSeconds(durations.postAbsorptive),
                 fatBurningSeconds |-> RoundSeconds(durations.fatBurning),
                 deepKetosisSeconds |-> RoundSeconds(durations.deepKetosis),
                 autophagySeconds |-> AutophagySecondsOf(isTrackingStartDate, durations)]]

\* if (dayStart < trackingStartDate) continue;
BeforeTrackingStart_Never(dayStart, trackingStartDate) == FALSE
BeforeTrackingStart(dayStart, trackingStartDate) == dayStart < trackingStartDate
RECURSIVE RecalculateLoop(_, _, _, _, _, _)
\* for (let i = 0; i < 14; i++): the table after the upserts and the days
\* done; a day before the tracking-start day is skipped (continue)
RecalculateLoop(i, now, sortedFoodItems, originalTrackingTimestamp, trackingStartDate, acc) ==
    IF i >= RetentionDays THEN acc
    ELSE IF BeforeTrackingStart(DayStartOf(i, now), trackingStartDate)
         THEN RecalculateLoop(i + 1, now, sortedFoodItems, originalTrackingTimestamp,
                              trackingStartDate, acc)
         ELSE LET day == RecalculateDay(DayStartOf(i, now), now, sortedFoodItems,
                                        originalTrackingTimestamp, trackingStartDate)
              IN RecalculateLoop(i + 1, now, sortedFoodItems, originalTrackingTimestamp,
                                 trackingStartDate,
                                 [table |-> UpsertFastingSummary(acc.table, day.row),
                                  days |-> Append(acc.days, day)])

\* the tracking-start day a pass backfills: midnight of the day of the
\* earliest meal at or after midnight 13 days ago; NULL when there is none
BackfilledTrackingStart(now, sortedFoodItems) ==
    LET fourteenDaysAgo == LocalMidnight(AddDays(now, 0 - (RetentionDays - 1)))
        mealsInWindow == SelectSeq(sortedFoodItems,
                                   LAMBDA item : item.timestamp >= fourteenDaysAgo)
    IN IF Len(mealsInWindow) > 0 THEN LocalMidnight(mealsInWindow[1].timestamp)
       ELSE NULL

\* POST /api/fasting/recalculate at the instant now: the user's tracking
\* start and table afterwards, and the days computed (the response is their rows)
RecalculateFastingSummaries(now, items, tracking, table) ==
    LET pruned == DeleteFastingSummariesBefore(table, AddDays(now, 0 - RetentionDays))
        queryStartDate == LocalMidnight(AddDays(now, 0 - QueryDays))
        endDate == EndOfDay(now)
        sortedFoodItems == SortFoodItems(GetFoodItemsInRange(items, queryStartDate, endDate))
        originalTrackingTimestamp == tracking
        normalized == IF originalTrackingTimestamp # NULL
                      THEN LocalMidnight(originalTrackingTimestamp) ELSE NULL
        backfill == BackfilledTrackingStart(now, sortedFoodItems)
        empty == [tracking |-> tracking, table |-> pruned, days |-> <<>>,
                  backfilled |-> FALSE]
    IN IF Len(sortedFoodItems) = 0 /\ originalTrackingTimestamp = NULL THEN empty
       ELSE IF normalized = NULL /\ backfill = NULL THEN empty
       ELSE LET trackingStartDate == IF normalized = NULL THEN backfill ELSE normalized
                done == RecalculateLoop(0, now, sortedFoodItems,
                                        originalTrackingTimestamp, trackingStartDate,
                                        [table |-> pruned, days |-> <<>>])
            IN [tracking |-> IF normalized = NULL
                             THEN StoreTimestamp(trackingStartDate) ELSE tracking,
                table |-> done.table,
                days |-> done.days,
                backfilled |-> normalized = NULL]

(***************************************************************************)
(* The server's food and fasting state as a state machine                  *)
(***************************************************************************)
MaxFoods == 2       \* food rows ever inserted
MaxDays == 1        \* days the clock may run past the first
MaxPasses == 2      \* recalculations in succession that are recorded
MaxChanges == 3     \* requests that change the food log, the clock or the user

FirstDay == QueryDays + 1
TzOffsets == {0}
ClockMarks == {10 * HourMs, 20 * HourMs + 400}
MealMarks == {8 * HourMs, 20 * HourMs}

ClockInstants == {d * DayMs + m : d \in FirstDay..(FirstDay + MaxDays), m \in ClockMarks}
MealInstants == {d * DayMs + m : d \in (FirstDay - 1)..(FirstDay + MaxDays), m \in MealMarks}
TrackingInstants == {d * DayMs : d \in (FirstDay - 1)..(FirstDay + MaxDays)}

NoPass == [days |-> <<>>, backfilled |-> FALSE, ran |-> FALSE]

\* every handler but the recalculation forgets the recorded passes
Changed == /\ changes < MaxChanges
           /\ changes' = changes + 1
           /\ lastPass' = NoPass
           /\ prevPass' = NoPass
           /\ passes' = 0

InitFasting ==
    /\ clock = FirstDay * DayMs + 10 * HourMs
    /\ tz \in TzOffsets
    /\ foodItems = {}
    /\ nextFoodId = 1
    /\ trackingStart = NULL
    /\ summaries = {}
    /\ lastPass = NoPass
    /\ prevPass = NoPass
    /\ passes = 0
    /\ changes = 0

NoCall == [fn |-> "none"]

(***************************************************************************)
(* Energy balance: the client anchor, its localStorage copy, the server row *)
(***************************************************************************)
\* a || b on numbers, null and undefined
JsOr(a, b) == IF a = NULL \/ a = Undefined \/ a = 0 THEN b ELSE a

\* seconds * (rate / 86400), the seconds taken from milliseconds
Burn(ms, rate) == ((ms \div SecondMs) * rate) \div 86400

\* DEFAULT_STATS
DefaultTdee == 2143
DEFAULT_STATS == [weight |-> 90, tdee |-> DefaultTdee, dailyGoalCalories |-> Undefined,
                  bufferAmount |-> Undefined, bufferForDate |-> Undefined,
                  cumulativeNetCalories |-> Undefined,
                  lastBalanceUpdateDate |-> Undefined]

\* Math.round(bmr * getActivityMultiplier(...)) of the account's biometrics
UserTdee == 24 * 100

CumulativeBalance(anchorValue, anchorTimestamp, st, now) ==
    LET goalBurnRatePerSecond == JsOr(st.dailyGoalCalories, st.tdee)
        secondsSinceAnchor == Max(0, now - anchorTimestamp)
    IN anchorValue + Burn(secondsSinceAnchor, goalBurnRatePerSecond)

\* the display shown without its cap
CapShown_Uncapped(cumulativeBalance, maxEnergyBalance) == cumulativeBalance

\* Math.min(cumulativeBalance, maxEnergyBalance)
CapShown(cumulativeBalance, maxEnergyBalance) == Min(cumulativeBalance, maxEnergyBalance)

ShownBalance ==
    CapShown(CumulativeBalance(balanceAnchorValue, balanceAnchorTimestamp, stats, clock),
             JsOr(stats.dailyGoalCalories, stats.tdee))

NoItem == [stored |-> FALSE, value |-> 0, timestamp |-> 0,
           storedTdee |-> 0, storedGoalRate |-> 0]

\* what saveEnergyBalanceToStorage writes from the render that made it
SavedItem(render, tdee, goalCalories) ==
    [stored |-> TRUE, value |-> render.balanceAnchorValue,
     timestamp |-> render.balanceAnchorTimestamp,
     storedTdee |-> tdee, storedGoalRate |-> JsOr(goalCalories, tdee)]

\* the mount effect ran in a render with these values: its intervals and its
\* loadUserStats call see them from then on
RunEffect(value, timestamp, initialized, st, dateStr) ==
    [balanceAnchorValue |-> value, balanceAnchorTimestamp |-> timestamp,
     anchorInitialized |-> initialized, stats |-> st, currentDateStr |-> dateStr,
     loading |-> TRUE]

\* the dependencies a render can change; currentDateStr changes in the interval
EffectDeps(initialized, st) == <<initialized, st.tdee, st.dailyGoalCalories>>

\* the effect runs again when a dependency differs from its last run
AfterRender(value, timestamp, initialized, st) ==
    IF EffectDeps(initialized, st) # EffectDeps(effect.anchorInitialized, effect.stats)
    THEN RunEffect(value, timestamp, initialized, st, effect.currentDateStr)
    ELSE [effect EXCEPT !.loading = FALSE]

\* Math.min(newBalance, maxBalance)
CapPersisted(newBalance, maxBalance) == Min(newBalance, maxBalance)

\* a handler that writes the balance without reading the row
UpdateEnergyReserve_Overwrite(u, deltaCalories, tdee, now) ==
    [u EXCEPT !.cumulativeNetCalories = 0 - deltaCalories,
              !.lastBalanceUpdateDate = StoreTimestamp(now)]

\* DatabaseStorage.updateEnergyReserve
UpdateEnergyReserve(u, deltaCalories, tdee, now) ==
    LET currentBalance == u.cumulativeNetCalories
        lastUpdate == IF u.lastBalanceUpdateDate # NULL THEN u.lastBalanceUpdateDate ELSE now
        burnSinceLastUpdate == Burn(Max(0, now - lastUpdate), tdee)
        newBalance == currentBalance + burnSinceLastUpdate - deltaCalories
        maxBalance == JsOr(u.dailyGoalCalories, tdee)
    IN [u EXCEPT !.cumulativeNetCalories = CapPersisted(newBalance, maxBalance),
                 !.lastBalanceUpdateDate = StoreTimestamp(now)]

\* DatabaseStorage.initializeEnergyReserve
InitializeEnergyReserveFrom(u, fastingTrackingStartDate, now) ==
    [u EXCEPT !.cumulativeNetCalories = 0,
              !.lastBalanceUpdateDate =
                  StoreTimestamp(IF fastingTrackingStartDate # NULL
                                 THEN fastingTrackingStartDate ELSE now)]

\* the same, for the tracking start the row has
InitializeEnergyReserve(u, now) == InitializeEnergyReserveFrom(u, trackingStart, now)

MaxTicks == 3          \* steps of the clock
MaxFoodEvents == 2     \* foods added or removed
MaxReloads == 1        \* page loads after the first

TickMs == 6 * HourMs
Deltas == {300, 0 - 300}
GoalChoices == {NULL, 1800}
DefaultUser == [cumulativeNetCalories |-> 0, lastBalanceUpdateDate |-> NULL,
                dailyGoalCalories |-> NULL, bufferAmount |-> NULL,
                bufferForDate |-> NULL, weight |-> NULL]

\* accounts that completed the profile: one never initialized, two with a
\* balance stored
Accounts ==
    {[DefaultUser EXCEPT !.weight = DEFAULT_STATS.weight]} \cup
    {[DefaultUser EXCEPT
        !.weight = DEFAULT_STATS.weight,
        !.cumulativeNetCalories = 1500,
        !.lastBalanceUpdateDate = StoreTimestamp(FirstDay * DayMs + 10 * HourMs),
        !.dailyGoalCalories = g] : g \in GoalChoices}

NoEvent == [event |-> "init", shown |-> 0, shownValid |-> FALSE, delta |-> 0,
            queryBefore |-> 0, uncapped |-> 0, tdee |-> 0]

\* the page as first rendered, its effect run and its loadUserStats sent
InitHome(u) ==
    /\ balanceAnchorValue = 0
    /\ balanceAnchorTimestamp = clock
    /\ anchorInitialized = FALSE
    /\ stats = DEFAULT_STATS
    /\ effect = RunEffect(0, clock, FALSE, DEFAULT_STATS, FormatDateLocal(clock))
    /\ localStorage = NoItem
    /\ user = u
    /\ patches = <<>>
    /\ hist = NoEvent
    /\ budget = [foods |-> 0, reloads |-> 0, goals |-> 0, restarts |-> 0]
    /\ mostRecentMealTimestamp = NULL
    /\ foods = {}
    /\ lastFetches = {}

InitEnergy ==
    /\ InitFasting
    /\ call = NoCall
    /\ ret = NoCall
    /\ \E u \in Accounts : InitHome(u)

\* the display before an event, kept from the last render with a loaded anchor
Seen(event, delta) ==
    [event |-> event,
     shown |-> IF anchorInitialized THEN ShownBalance ELSE hist.shown,
     shownValid |-> anchorInitialized \/ hist.shownValid,
     delta |-> delta, queryBefore |-> 0, uncapped |-> 0, tdee |-> 0]

\* the 100 ms interval: setNow(Date.now()), and on a new local day
\* setCurrentDateStr, the day's foods cleared and the effect run again
Tick ==
    LET todayStr == FormatDateLocal(clock')
        dayChanged == todayStr # effect.currentDateStr
    IN /\ clock < FirstDay * DayMs + 10 * HourMs + MaxTicks * TickMs
       /\ clock' = clock + TickMs
       /\ hist' = Seen("tick", 0)
       /\ effect' = IF dayChanged
                     THEN RunEffect(balanceAnchorValue, balanceAnchorTimestamp,
                                    anchorInitialized, stats, todayStr)
                     ELSE effect
       /\ foods' = IF dayChanged THEN {} ELSE foods
       /\ UNCHANGED <<tz, foodItems, nextFoodId, trackingStart, summaries,
                      lastPass, prevPass, passes, changes, pureVars,
                      mostRecentMealTimestamp, lastFetches>>
       /\ UNCHANGED <<balanceAnchorValue, balanceAnchorTimestamp, anchorInitialized,
                      stats, localStorage, user, patches, budget>>

\* the 30 second interval of the effect, when it changes the item
Save30s ==
    /\ effect.anchorInitialized /\ effect.stats.tdee > 0
    /\ localStorage # SavedItem(effect, effect.stats.tdee, effect.stats.dailyGoalCalories)
    /\ localStorage' = SavedItem(effect, effect.stats.tdee, effect.stats.dailyGoalCalories)
    /\ hist' = Seen("save", 0)
    /\ UNCHANGED <<fastingVars, pureVars, homeVars>>
    /\ UNCHANGED <<balanceAnchorValue, balanceAnchorTimestamp, anchorInitialized,
                   stats, effect, user, patches, budget>>

\* loadUserStats from its response on, for an account with biometrics
LoadUserStats ==
    LET data == user
        tdee == UserTdee
        todayStr == ISODate(clock)
        bufferApplies == data.bufferForDate = todayStr
        effectiveRate == JsOr(data.dailyGoalCalories, tdee)
        now == clock
        \* loadEnergyBalanceFromStorage(tdee, data.dailyGoalCalories)
        storedRate == JsOr(data.dailyGoalCalories, JsOr(localStorage.storedGoalRate, tdee))
        catchUp == Burn(Max(0, now - localStorage.timestamp), storedRate)
        \* initializeEnergyReserve(tdee, data.dailyGoalCalories), its sync awaited
        initialized == InitializeEnergyReserve(data, now)
        row == IF data.lastBalanceUpdateDate = NULL THEN initialized ELSE data
        serverBalance == row.cumulativeNetCalories
        serverTimestamp == row.lastBalanceUpdateDate
        currentBalance == serverBalance + Burn(Max(0, now - serverTimestamp), effectiveRate)
        value == IF localStorage.stored THEN localStorage.value + catchUp
                 ELSE currentBalance
        loaded == [weight |-> data.weight, tdee |-> tdee,
                   dailyGoalCalories |-> JsOr(data.dailyGoalCalories, Undefined),
                   bufferAmount |-> IF bufferApplies THEN data.bufferAmount
                                    ELSE Undefined,
                   bufferForDate |-> IF bufferApplies THEN data.bufferForDate
                                     ELSE Undefined,
                   \* as loaded, then as the initialization answered
                   cumulativeNetCalories |->
                       IF localStorage.stored THEN JsOr(data.cumulativeNetCalories, 0)
                       ELSE row.cumulativeNetCalories,
                   lastBalanceUpdateDate |->
                       IF localStorage.stored THEN data.lastBalanceUpdateDate
                       ELSE row.lastBalanceUpdateDate]
    IN /\ effect.loading
       /\ hist' = Seen("load", 0)
       /\ UNCHANGED <<fastingVars, pureVars, homeVars, patches, budget>>
       /\ IF data.weight = NULL
          THEN \* no biometrics: onboarding is shown and nothing is loaded
               /\ effect' = [effect EXCEPT !.loading = FALSE]
               /\ UNCHANGED <<stats, balanceAnchorValue, balanceAnchorTimestamp,
                              anchorInitialized, localStorage, user>>
          ELSE /\ stats' = loaded
               /\ balanceAnchorValue' = value
               /\ balanceAnchorTimestamp' = now
               /\ anchorInitialized' = TRUE
               /\ localStorage' = IF localStorage.stored THEN localStorage
                                  ELSE SavedItem(effect, tdee, data.dailyGoalCalories)
               /\ user' = IF localStorage.stored THEN user ELSE row
               /\ effect' = AfterRender(value, now, TRUE, loaded)

\* updateEnergyReserve(deltaCalories) of Home, up to its fetch
FoodDelta(deltaCalories) ==
    LET newValue == balanceAnchorValue - deltaCalories
        effectiveRate == JsOr(stats.dailyGoalCalories, stats.tdee)
    IN /\ anchorInitialized
       /\ budget.foods < MaxFoodEvents
       /\ budget' = [budget EXCEPT !.foods = @ + 1]
       /\ balanceAnchorValue' = newValue
       /\ localStorage' = [stored |-> TRUE, value |-> newValue,
                           timestamp |-> balanceAnchorTimestamp,
                           storedTdee |-> stats.tdee, storedGoalRate |-> effectiveRate]
       /\ patches' = Append(patches, [deltaCalories |-> deltaCalories,
                                      tdee |-> effectiveRate])
       /\ hist' = Seen("food", deltaCalories)
       /\ UNCHANGED <<fastingVars, pureVars, homeVars, balanceAnchorTimestamp, anchorInitialized,
                      stats, effect, user>>

\* PATCH /api/user/update-balance; its response only sets stats
PatchUpdateBalance ==
    LET body == Head(patches)
        lastUpdate == IF user.lastBalanceUpdateDate # NULL
                      THEN user.lastBalanceUpdateDate ELSE clock
        uncapped == user.cumulativeNetCalories
                       + Burn(Max(0, clock - lastUpdate), body.tdee)
        updated == UpdateEnergyReserve(user, body.deltaCalories, body.tdee, clock)
    IN /\ patches # <<>>
       /\ user' = updated
       /\ stats' = [stats EXCEPT
                      !.cumulativeNetCalories = updated.cumulativeNetCalories,
                      !.lastBalanceUpdateDate = updated.lastBalanceUpdateDate]
       /\ patches' = Tail(patches)
       /\ hist' = [Seen("patch", body.deltaCalories) EXCEPT
                     !.queryBefore = Min(uncapped, JsOr(user.dailyGoalCalories, body.tdee)),
                     !.uncapped = uncapped - body.deltaCalories,
                     !.tdee = body.tdee]
       /\ UNCHANGED <<fastingVars, pureVars, homeVars, balanceAnchorValue, balanceAnchorTimestamp,
                      anchorInitialized, effect, localStorage, budget>>

\* the page is loaded again: state as declared, the effect of the first render
Reload ==
    /\ budget.reloads < MaxReloads
    /\ budget' = [budget EXCEPT !.reloads = @ + 1]
    /\ balanceAnchorValue' = 0
    /\ balanceAnchorTimestamp' = clock
    /\ anchorInitialized' = FALSE
    /\ stats' = DEFAULT_STATS
    /\ effect' = RunEffect(0, clock, FALSE, DEFAULT_STATS, FormatDateLocal(clock))
    /\ hist' = Seen("reload", 0)
    /\ UNCHANGED <<fastingVars, pureVars, homeVars, localStorage, user, patches>>

NextEnergy ==
    \/ Tick
    \/ Save30s
    \/ LoadUserStats
    \/ \E d \in Deltas : FoodDelta(d)
    \/ PatchUpdateBalance
    \/ Reload

SpecEnergy == InitEnergy /\ [][NextEnergy]_vars

(***************************************************************************)
(* The fasting requests                                                    *)
(***************************************************************************)
Init ==
    /\ InitFasting
    /\ call = NoCall
    /\ ret = NoCall
    /\ InitHome(DefaultUser)

AdvanceClock ==
    /\ \E t \in ClockInstants : t > clock /\ clock' = t
    /\ Changed
    /\ UNCHANGED <<tz, foodItems, nextFoodId, trackingStart, summaries>>
    /\ UNCHANGED <<pureVars, homeVars, energyVars>>

\* if (currentUser && !currentUser.fastingTrackingStartDate) updateUser(...):
\* the tracking start after the insert of a row stamped foodTimestamp
TrackingStartAfterAdd_Always(current, foodTimestamp) == StoreTimestamp(foodTimestamp)
TrackingStartAfterAdd(current, foodTimestamp) ==
    IF current = NULL THEN StoreTimestamp(foodTimestamp) ELSE current

\* POST /api/food; bodyTimestamp = NULL when the body has no timestamp
PostFood(bodyTimestamp) ==
    LET timestamp == IF bodyTimestamp # NULL THEN bodyTimestamp ELSE clock
        refused == /\ trackingStart # NULL
                   /\ LocalMidnight(timestamp) < LocalMidnight(trackingStart)
        foodItem == [id |-> nextFoodId, timestamp |-> StoreTimestamp(timestamp)]
    IN /\ nextFoodId <= MaxFoods
       /\ ~refused
       /\ foodItems' = foodItems \cup {foodItem}
       /\ nextFoodId' = nextFoodId + 1
       /\ trackingStart' = TrackingStartAfterAdd(trackingStart, foodItem.timestamp)
       /\ Changed
       /\ UNCHANGED <<clock, tz, summaries>>
       /\ UNCHANGED <<pureVars, homeVars, energyVars>>

\* PUT /api/food/:id with a timestamp
PutFood(id, timestamp) ==
    /\ \E f \in foodItems :
          /\ f.id = id
          /\ f.timestamp # StoreTimestamp(timestamp)
          /\ foodItems' = (foodItems \ {f})
                             \cup {[f EXCEPT !.timestamp = StoreTimestamp(timestamp)]}
    /\ Changed
    /\ UNCHANGED <<clock, tz, nextFoodId, trackingStart, summaries>>
    /\ UNCHANGED <<pureVars, homeVars, energyVars>>

\* DELETE /api/food/:id
DeleteFood(id) ==
    /\ \E f \in foodItems : f.id = id /\ foodItems' = foodItems \ {f}
    /\ Changed
    /\ UNCHANGED <<clock, tz, nextFoodId, trackingStart, summaries>>
    /\ UNCHANGED <<pureVars, homeVars, energyVars>>

\* DELETE /api/food/all
DeleteAllFood ==
    /\ foodItems # {} \/ summaries # {} \/ trackingStart # NULL
    /\ foodItems' = {}
    /\ summaries' = {}
    /\ trackingStart' = NULL
    /\ Changed
    /\ UNCHANGED <<clock, tz, nextFoodId>>
    /\ UNCHANGED <<pureVars, homeVars, energyVars>>

\* PATCH /api/user/profile; body is Undefined when the body has no
\* fastingTrackingStartDate, else NULL or an instant
PatchProfile(body) ==
    LET updated == IF body # Undefined THEN StoreTimestamp(body)
                   ELSE IF trackingStart = NULL THEN StoreTimestamp(LocalMidnight(clock))
                   ELSE trackingStart
    IN /\ updated # trackingStart
       /\ trackingStart' = updated
       /\ Changed
       /\ UNCHANGED <<clock, tz, foodItems, nextFoodId, summaries>>
       /\ UNCHANGED <<pureVars, homeVars, energyVars>>

\* POST /api/fasting/recalculate
Recalculate ==
    LET pass == RecalculateFastingSummaries(clock, foodItems, trackingStart, summaries)
    IN /\ passes < MaxPasses
       /\ trackingStart' = pass.tracking
       /\ summaries' = pass.table
       /\ prevPass' = lastPass
       /\ lastPass' = [days |-> pass.days, backfilled |-> pass.backfilled, ran |-> TRUE]
       /\ passes' = passes + 1
       /\ UNCHANGED <<clock, tz, foodItems, nextFoodId, changes>>
       /\ UNCHANGED <<pureVars, homeVars, energyVars>>

Next ==
    \/ AdvanceClock
    \/ \E t \in MealInstants \cup {NULL} : PostFood(t)
    \/ \E id \in 1..MaxFoods, t \in MealInstants : PutFood(id, t)
    \/ \E id \in 1..MaxFoods : DeleteFood(id)
    \/ DeleteAllFood
    \/ \E body \in TrackingInstants \cup {NULL, Undefined} : PatchProfile(body)
    \/ Recalculate

Spec == Init /\ [][Next]_vars

(***************************************************************************)
(* The last meal of the live fasting stage (client)                        *)
(***************************************************************************)
MaxMealRequests == 3   \* food requests of the page

\* DatabaseStorage.getMostRecentFoodItem: the timestamp of the row, or null
GetMostRecentFoodItem(items) ==
    IF items = {} THEN NULL
    ELSE CHOOSE t \in {f.timestamp : f \in items} :
            \A f \in items : f.timestamp <= t

\* getLastMealTime; lastMealTimestamp is never set to an instant
GetLastMealTime ==
    IF mostRecentMealTimestamp # NULL THEN mostRecentMealTimestamp
    ELSE IF foods # {} THEN GetMostRecentFoodItem(foods)
    ELSE NULL

\* loadMostRecentMeal: GET /api/food/last answered from these rows
LoadMostRecentMeal(items) ==
    LET used == {r.seq : r \in lastFetches}
        fresh == CHOOSE n \in 1..(MaxMealRequests + 2) : n \notin used
    IN lastFetches \cup {[seq |-> fresh, timestamp |-> GetMostRecentFoodItem(items)]}

MealRequest == /\ changes < MaxMealRequests
               /\ changes' = changes + 1

\* handleAddFood: POST /api/food, then the lists and loadMostRecentMeal
HandleAddFood(timestamp) ==
    LET clientRefused == /\ trackingStart # NULL
                         /\ timestamp < LocalMidnight(trackingStart)
        serverRefused == /\ trackingStart # NULL
                         /\ LocalMidnight(timestamp) < LocalMidnight(trackingStart)
        newFood == [id |-> nextFoodId, timestamp |-> StoreTimestamp(timestamp)]
        newItems == foodItems \cup {newFood}
    IN /\ nextFoodId <= MaxFoods
       /\ ~clientRefused /\ ~serverRefused
       /\ MealRequest
       /\ foodItems' = newItems
       /\ nextFoodId' = nextFoodId + 1
       /\ trackingStart' = TrackingStartAfterAdd(trackingStart, newFood.timestamp)
       /\ foods' = IF LocalMidnight(timestamp) = LocalMidnight(clock)
                   THEN foods \cup {newFood} ELSE foods
       /\ lastFetches' = LoadMostRecentMeal(newItems)
       /\ UNCHANGED <<clock, tz, summaries, lastPass, prevPass, passes,
                      pureVars, energyVars, mostRecentMealTimestamp>>

\* handleSaveEdit: PUT /api/food/:id with a timestamp
HandleSaveEdit(id, timestamp) ==
    \E f \in foodItems :
        LET updatedFood == [f EXCEPT !.timestamp = StoreTimestamp(timestamp)]
            newItems == (foodItems \ {f}) \cup {updatedFood}
        IN /\ f.id = id
           /\ f.timestamp # StoreTimestamp(timestamp)
           /\ MealRequest
           /\ foodItems' = newItems
           /\ foods' = {g \in foods : g.id # id} \cup {updatedFood}
           /\ lastFetches' = LoadMostRecentMeal(newItems)
           /\ UNCHANGED <<clock, tz, nextFoodId, trackingStart, summaries, lastPass,
                          prevPass, passes, pureVars, energyVars,
                          mostRecentMealTimestamp>>

\* handleDeleteFood: DELETE /api/food/:id
HandleDeleteFood(id) ==
    \E f \in foodItems :
        /\ f.id = id
        /\ MealRequest
        /\ foodItems' = foodItems \ {f}
        /\ foods' = {g \in foods : g.id # id}
        /\ lastFetches' = LoadMostRecentMeal(foodItems \ {f})
        /\ UNCHANGED <<clock, tz, nextFoodId, trackingStart, summaries, lastPass,
                       prevPass, passes, pureVars, energyVars,
                       mostRecentMealTimestamp>>

\* handleDeleteAllOnly: DELETE /api/food/all
HandleDeleteAllOnly ==
    /\ MealRequest
    /\ foodItems' = {}
    /\ summaries' = {}
    /\ trackingStart' = NULL
    /\ foods' = {}
    /\ UNCHANGED <<clock, tz, nextFoodId, lastPass, prevPass, passes,
                   pureVars, energyVars, mostRecentMealTimestamp, lastFetches>>

\* a response of GET /api/food/last reaches loadMostRecentMeal
LastMealResponse ==
    \E r \in lastFetches :
        /\ mostRecentMealTimestamp' = r.timestamp
        /\ lastFetches' = lastFetches \ {r}
        /\ UNCHANGED <<fastingVars, pureVars, energyVars, foods>>

NextLastMeal ==
    \/ \E t \in MealInstants : HandleAddFood(t)
    \/ \E id \in 1..MaxFoods, t \in MealInstants : HandleSaveEdit(id, t)
    \/ \E id \in 1..MaxFoods : HandleDeleteFood(id)
    \/ HandleDeleteAllOnly
    \/ LastMealResponse

SpecLastMeal == Init /\ [][NextLastMeal]_vars

(***************************************************************************)
(* The buffer allowance: POST /api/user/calculate-buffer                   *)
(***************************************************************************)
MaxBufferDays == 2     \* dates a request or a stored buffer may name

\* dates are day numbers, as ISODate gives them; calories eaten come in
\* tenths of a calorie, goal and TDEE in calories
BufferDates == FirstDay..(FirstDay + MaxBufferDays)
ConsumedTenths == {15000, 17994, 17995, 18000, 20996, 21000, 22000}
TdeeChoices == {2100, 1700}

\* the amount cut down to a whole number
RoundTenths_Floor(x) == x \div 10

\* Math.round of a number held in tenths
RoundTenths(x) == (x + 5) \div 10

\* a buffer added to the one already stored
SetBuffer_Adding(u, amount, forDate) ==
    [u EXCEPT !.bufferAmount = IF @ = NULL THEN amount ELSE @ + amount,
              !.bufferForDate = forDate]

\* storage.setBuffer
SetBuffer(u, amount, forDate) ==
    [u EXCEPT !.bufferAmount = amount, !.bufferForDate = forDate]

\* storage.clearBuffer
ClearBuffer(u) == [u EXCEPT !.bufferAmount = NULL, !.bufferForDate = NULL]

\* the day after date: setDate(getDate() + 1), toISOString().split('T')[0]
NextDateStr(date) == date + 1

\* the handler's decision consumed < goal && consumed < tdee
QualifiesForBuffer(consumed, goal, tdee) ==
    consumed < goal * 10 /\ consumed < tdee * 10

\* a stored buffer cleared only when it is for an earlier day
ClearsBuffer_Strict(bufferForDate, nextDateStr) ==
    bufferForDate # NULL /\ bufferForDate < nextDateStr

\* a stored buffer cleared whatever day it is for
ClearsBuffer_Any(bufferForDate, nextDateStr) == bufferForDate # NULL

\* the stored buffer the handler clears: bufferForDate <= nextDateStr
ClearsBuffer(bufferForDate, nextDateStr) ==
    bufferForDate # NULL /\ bufferForDate <= nextDateStr

\* the handler: the row it leaves and the body it answers with
CalculateBufferOf(u, date, consumed, tdee) ==
    LET goal == JsOr(u.dailyGoalCalories, tdee)
        nextDateStr == NextDateStr(date)
        bufferAmount == RoundTenths(goal * 10 - consumed)
        reason == IF consumed >= tdee * 10 THEN "exceeded_tdee"
                  ELSE "met_or_exceeded_goal"
        Body(set, amount, forDate, why, cleared, row) ==
            [bufferSet |-> set, bufferAmount |-> amount, forDate |-> forDate,
             reason |-> why, bufferCleared |-> cleared,
             user |-> [bufferAmount |-> row.bufferAmount,
                       bufferForDate |-> row.bufferForDate]]
    IN IF QualifiesForBuffer(consumed, goal, tdee)
       THEN LET updatedUser == SetBuffer(u, bufferAmount, nextDateStr)
            IN [user |-> updatedUser,
                body |-> Body(TRUE, bufferAmount, nextDateStr, "", FALSE, updatedUser)]
       ELSE IF ClearsBuffer(u.bufferForDate, nextDateStr)
       THEN LET updatedUser == ClearBuffer(u)
            IN [user |-> updatedUser,
                body |-> Body(FALSE, NULL, NULL, reason, TRUE, updatedUser)]
       ELSE [user |-> u, body |-> Body(FALSE, NULL, NULL, reason, FALSE, u)]

BufferAccounts ==
    {[DefaultUser EXCEPT !.dailyGoalCalories = g] : g \in GoalChoices} \cup
    {[DefaultUser EXCEPT !.dailyGoalCalories = g, !.bufferAmount = 250,
                         !.bufferForDate = d] :
        g \in GoalChoices, d \in FirstDay..(FirstDay + MaxBufferDays + 2)}

InitBuffer ==
    /\ InitFasting
    /\ call = NoCall
    /\ ret = NoCall
    /\ \E u \in BufferAccounts : InitHome(u)

\* POST /api/user/calculate-buffer; call keeps the request, the row before it
\* and, when the request repeats the one before, what that one answered
CalculateBuffer(date, consumed, tdee) ==
    LET done == CalculateBufferOf(user, date, consumed, tdee)
        request == [date |-> date, consumed |-> consumed, tdee |-> tdee]
        repeated == call.fn = "buffer" /\ call.request = request
    IN /\ user' = done.user
       /\ ret' = [fn |-> "buffer", value |-> done.body]
       /\ call' = [fn |-> "buffer", request |-> request, before |-> user,
                   repeated |-> repeated,
                   first |-> IF repeated THEN [body |-> ret.value, user |-> user]
                             ELSE [body |-> done.body, user |-> done.user]]
       /\ UNCHANGED <<fastingVars, homeVars, balanceAnchorValue, balanceAnchorTimestamp,
                      anchorInitialized, stats, effect, localStorage, patches, hist,
                      budget>>

NextBuffer ==
    \E date \in BufferDates, consumed \in ConsumedTenths, tdee \in TdeeChoices :
        CalculateBuffer(date, consumed, tdee)

SpecBuffer == InitBuffer /\ [][NextBuffer]_vars

(***************************************************************************)
(* The buffer on the page: stats.bufferAmount across a day change          *)
(***************************************************************************)
\* const buffer = stats.bufferAmount || 0
EffectiveBuffer == JsOr(stats.bufferAmount, 0)

\* accounts with an anchor stored, with no buffer or one for a day at hand
AllowanceAccounts ==
    {[a EXCEPT !.bufferAmount = b[1], !.bufferForDate = b[2]] :
        a \in Accounts,
        b \in {<<NULL, NULL>>} \cup {<<250, d>> : d \in FirstDay..(FirstDay + MaxDays)}}

InitAllowance ==
    /\ InitFasting
    /\ call = NoCall
    /\ ret = NoCall
    /\ \E u \in AllowanceAccounts : InitHome(u)

\* loadUserStats when its fetch rejects: the catch only logs
LoadUserStatsFails ==
    /\ effect.loading
    /\ effect' = [effect EXCEPT !.loading = FALSE]
    /\ hist' = Seen("failed", 0)
    /\ UNCHANGED <<fastingVars, pureVars, homeVars, balanceAnchorValue,
                   balanceAnchorTimestamp, anchorInitialized, stats, localStorage,
                   user, patches, budget>>

NextAllowance ==
    \/ Tick
    \/ LoadUserStats
    \/ LoadUserStatsFails
    \/ Save30s
    \/ Reload

SpecAllowance == InitAllowance /\ [][NextAllowance]_vars

(***************************************************************************)
(* Saving a goal: handleSaveGoals and PATCH /api/user/goals                *)
(***************************************************************************)
MaxGoalSaves == 1      \* goals saved

\* Math.max(bmr - safeDeficit, 1200) for the targets entered
SavedGoals == {1200, 1800}

\* storage.updateUserGoals
UpdateUserGoals(u, dailyGoalCalories) == [u EXCEPT !.dailyGoalCalories = dailyGoalCalories]

\* recalculatedBalance of handleSaveGoals
RecalculatedBalance(st, newGoalCalories, now) ==
    LET serverBalance == IF st.cumulativeNetCalories \in {NULL, Undefined} THEN 0
                         ELSE st.cumulativeNetCalories
        serverTimestamp == st.lastBalanceUpdateDate
    IN serverBalance + Burn(Max(0, now - serverTimestamp), newGoalCalories)

\* handleSaveGoals with valid targets, from the click to the response handled
HandleSaveGoals(newGoalCalories) ==
    LET reanchors == JsOr(newGoalCalories, 0) # 0
                       /\ JsOr(stats.lastBalanceUpdateDate, 0) # 0
        value == IF reanchors THEN RecalculatedBalance(stats, newGoalCalories, clock)
                 ELSE balanceAnchorValue
        timestamp == IF reanchors THEN clock ELSE balanceAnchorTimestamp
        saved == [stats EXCEPT !.dailyGoalCalories = newGoalCalories]
        render == [balanceAnchorValue |-> balanceAnchorValue,
                   balanceAnchorTimestamp |-> balanceAnchorTimestamp]
    IN /\ anchorInitialized
       /\ budget.goals < MaxGoalSaves
       /\ budget' = [budget EXCEPT !.goals = @ + 1]
       /\ user' = UpdateUserGoals(user, newGoalCalories)
       /\ balanceAnchorValue' = value
       /\ balanceAnchorTimestamp' = timestamp
       /\ localStorage' = IF reanchors
                          THEN SavedItem(render, stats.tdee, newGoalCalories)
                          ELSE localStorage
       /\ stats' = saved
       /\ effect' = AfterRender(value, timestamp, anchorInitialized, saved)
       /\ hist' = Seen("goal", 0)
       /\ UNCHANGED <<fastingVars, pureVars, homeVars, anchorInitialized, patches>>

NextGoals ==
    \/ Tick
    \/ LoadUserStats
    \/ \E d \in Deltas : FoodDelta(d)
    \/ PatchUpdateBalance
    \/ Save30s
    \/ \E g \in SavedGoals : HandleSaveGoals(g)

SpecGoals == InitEnergy /\ [][NextGoals]_vars

(***************************************************************************)
(* Restart: handleRestartApp, then handleCompleteOnboarding                *)
(***************************************************************************)
MaxRestarts == 1       \* restarts of the account

\* dailyGoalCalories of the onboarding form: none, or a goal
OnboardingGoals == {Undefined, 1800}

\* POST /api/user/reset
ResetUser(u) ==
    [u EXCEPT !.weight = NULL, !.dailyGoalCalories = NULL,
              !.cumulativeNetCalories = 0, !.lastBalanceUpdateDate = NULL]

\* handleRestartApp, its two requests answered
HandleRestartApp ==
    /\ budget.restarts < MaxRestarts
    /\ budget' = [budget EXCEPT !.restarts = @ + 1]
    \* DELETE /api/food/all and POST /api/user/reset
    /\ foodItems' = {}
    /\ summaries' = {}
    /\ trackingStart' = NULL
    /\ user' = ResetUser(user)
    \* the local state
    /\ foods' = {}
    /\ stats' = DEFAULT_STATS
    /\ balanceAnchorValue' = 0
    /\ balanceAnchorTimestamp' = clock
    /\ anchorInitialized' = FALSE
    /\ effect' = AfterRender(0, clock, FALSE, DEFAULT_STATS)
    /\ hist' = Seen("restart", 0)
    /\ UNCHANGED <<clock, tz, nextFoodId, lastPass, prevPass, passes, changes,
                   pureVars, mostRecentMealTimestamp, lastFetches, localStorage,
                   patches>>

\* handleCompleteOnboarding with a valid form: PATCH profile, PATCH goals when
\* a goal is entered, then initializeEnergyReserve and its sync
HandleCompleteOnboarding(dailyGoalCalories) ==
    LET tdee == UserTdee
        startDate == LocalMidnight(clock)
        now == clock
        entered == [DEFAULT_STATS EXCEPT !.tdee = tdee,
                                         !.dailyGoalCalories = dailyGoalCalories,
                                         !.cumulativeNetCalories = 0]
        profile == [user EXCEPT !.weight = entered.weight]
        withGoals == IF JsOr(dailyGoalCalories, 0) # 0
                     THEN UpdateUserGoals(profile, dailyGoalCalories) ELSE profile
        \* loadEnergyBalanceFromStorage(tdee, dailyGoalCalories)
        loadedFromStorage == localStorage.stored
        storedRate == JsOr(dailyGoalCalories, JsOr(localStorage.storedGoalRate, tdee))
        catchUp == Burn(Max(0, now - localStorage.timestamp), storedRate)
        \* syncWithServer
        row == InitializeEnergyReserveFrom(withGoals, StoreTimestamp(startDate), now)
        effectiveRate == JsOr(dailyGoalCalories, tdee)
        currentBalance == row.cumulativeNetCalories
                            + Burn(Max(0, now - row.lastBalanceUpdateDate), effectiveRate)
        value == IF loadedFromStorage THEN localStorage.value + catchUp
                 ELSE currentBalance
        render == [balanceAnchorValue |-> balanceAnchorValue,
                   balanceAnchorTimestamp |-> balanceAnchorTimestamp]
        synced == [entered EXCEPT
                     !.cumulativeNetCalories = row.cumulativeNetCalories,
                     !.lastBalanceUpdateDate = row.lastBalanceUpdateDate]
    IN /\ user.weight = NULL
       /\ trackingStart' = StoreTimestamp(startDate)
       /\ user' = row
       /\ stats' = synced
       /\ balanceAnchorValue' = value
       /\ balanceAnchorTimestamp' = now
       /\ anchorInitialized' = TRUE
       /\ localStorage' = IF loadedFromStorage THEN localStorage
                          ELSE SavedItem(render, tdee, dailyGoalCalories)
       /\ effect' = AfterRender(value, now, TRUE, synced)
       /\ hist' = Seen("onboard", 0)
       /\ UNCHANGED <<clock, tz, foodItems, nextFoodId, summaries, lastPass, prevPass,
                      passes, changes, pureVars, homeVars, patches, budget>>

NextRestart ==
    \/ Tick
    \/ LoadUserStats
    \/ \E d \in Deltas : FoodDelta(d)
    \/ PatchUpdateBalance
    \/ HandleRestartApp
    \/ \E g \in OnboardingGoals : HandleCompleteOnboarding(g)

SpecRestart == InitEnergy /\ [][NextRestart]_vars

(***************************************************************************)
(* A PATCH /api/user/update-balance that fails                             *)
(***************************************************************************)
\* the optimistic update taken back
AnchorAfterFailure_RolledBack(anchorValue, deltaCalories) == anchorValue + deltaCalories

\* the anchor after the catch of updateEnergyReserve, which only logs
AnchorAfterFailure(anchorValue, deltaCalories) == anchorValue

\* the fetch of updateEnergyReserve rejects, or answers with an error status
PatchUpdateBalanceFails ==
    LET body == Head(patches)
    IN /\ patches # <<>>
       /\ patches' = Tail(patches)
       /\ balanceAnchorValue' = AnchorAfterFailure(balanceAnchorValue, body.deltaCalories)
       /\ hist' = Seen("patchfailed", body.deltaCalories)
       /\ UNCHANGED <<fastingVars, pureVars, homeVars, balanceAnchorTimestamp,
                      anchorInitialized, stats, effect, localStorage, user, budget>>

NextOffline ==
    \/ Tick
    \/ LoadUserStats
    \/ \E d \in Deltas : FoodDelta(d)
    \/ PatchUpdateBalance
    \/ PatchUpdateBalanceFails

SpecOffline == InitEnergy /\ [][NextOffline]_vars

(***************************************************************************)
(* Burn over elapsed time for any cap basis: the page's query and the      *)
(* server's catch-up, as functions of their inputs                         *)
(***************************************************************************)
MaxBurnTicks == 3      \* ticks elapsed since the anchor

\* TDEE as round(bmr * multiplier) gives it for the biometrics entered: the
\* forms check only that the numbers parse, so it can be 0 or negative
BurnTdees == {0, 0 - UserTdee, UserTdee}
BurnAnchors == {0, 500, 0 - 300}

BurnCalls ==
    {[fn |-> "burn", anchorValue |-> v, elapsed |-> e * TickMs, tdee |-> t,
      dailyGoalCalories |-> g] :
        v \in BurnAnchors, e \in 0..MaxBurnTicks, t \in BurnTdees, g \in GoalChoices}

InitBurn ==
    /\ InitFasting
    /\ InitHome(DefaultUser)
    /\ call \in BurnCalls
    /\ ret = NoCall

\* cumulativeBalance of the page, elapsed after its anchor
CallCumulativeBalance ==
    LET st == [DEFAULT_STATS EXCEPT
                 !.tdee = call.tdee,
                 !.dailyGoalCalories = JsOr(call.dailyGoalCalories, Undefined)]
    IN /\ call.fn = "burn"
       /\ ret' = [fn |-> "cumulativeBalance",
                  value |-> CumulativeBalance(call.anchorValue, clock, st,
                                              clock + call.elapsed)]
       /\ UNCHANGED <<fastingVars, energyVars, homeVars, call>>

\* updateEnergyReserve of the server with no food delta, elapsed after the
\* row's lastBalanceUpdateDate; the page sends its cap basis as tdee
CallUpdateEnergyReserve ==
    LET row == [DefaultUser EXCEPT
                  !.cumulativeNetCalories = call.anchorValue,
                  !.lastBalanceUpdateDate = StoreTimestamp(clock),
                  !.dailyGoalCalories = call.dailyGoalCalories]
        sent == JsOr(call.dailyGoalCalories, call.tdee)
    IN /\ call.fn = "burn"
       /\ ret' = [fn |-> "updateEnergyReserve",
                  value |-> UpdateEnergyReserve(row, 0, sent, clock + call.elapsed)
                                .cumulativeNetCalories]
       /\ UNCHANGED <<fastingVars, energyVars, homeVars, call>>

NextBurn ==
    \/ CallCumulativeBalance
    \/ CallUpdateEnergyReserve

SpecBurn == InitBurn /\ [][NextBurn]_vars

(***************************************************************************)
(* Biometrics and the goal plan: calculateBMR, TDEE, and the three places  *)
(* that derive dailyDeficit and dailyGoalCalories                          *)
(***************************************************************************)
MaxPlanDays == 2       \* target days offered beyond the shortest

\* Math.round(n / d) for d > 0: the nearest integer, a half going up
RoundDiv_Floor(n, d) == n \div d

RoundDiv(n, d) == (2 * n + d) \div (2 * d)

\* calculateBMR; 6.25 * height is kept in hundredths
CalculateBMR(weight, height, age, gender) ==
    LET bmr == 1000 * weight + 625 * height - 500 * age
        adjusted == IF gender = "male" THEN bmr + 500 ELSE bmr - 16100
    IN RoundDiv(adjusted, 100)

\* getActivityMultiplier, in thousandths
GetActivityMultiplier(level) ==
    CASE level = "sedentary" -> 1200
      [] level = "light" -> 1375
      [] level = "moderate" -> 1550
      [] level = "active" -> 1725
      [] level = "very_active" -> 1900
      [] OTHER -> 1200

\* Math.round(bmr * getActivityMultiplier(level))
CalculateTdee(bmr, level) == RoundDiv(bmr * GetActivityMultiplier(level), 1000)

\* getMinimumDailyCalories
GetMinimumDailyCalories(gender) == IF gender = "female" THEN 1200 ELSE 1500

\* Math.min(Math.round(weightDiff * 7700 / targetDays), 1000)
DailyDeficit(currentWeight, targetWeight, targetDays) ==
    Min(RoundDiv((currentWeight - targetWeight) * 7700, targetDays), 1000)

\* PATCH /api/user/goals: what it persists
PatchGoalsPlan(currentWeight, targetWeight, targetDays, bmr) ==
    LET safeDeficit == DailyDeficit(currentWeight, targetWeight, targetDays)
    IN [dailyDeficit |-> safeDeficit, dailyGoalCalories |-> Max(bmr - safeDeficit, 1200)]

\* handleCompleteOnboarding: what it puts in stats
OnboardingPlan(weight, targetWeight, targetDays, bmr, gender) ==
    LET dailyDeficit == DailyDeficit(weight, targetWeight, targetDays)
        minDaily == IF gender = "female" THEN 1200 ELSE 1500
    IN [dailyDeficit |-> dailyDeficit,
        dailyGoalCalories |-> Max(bmr - dailyDeficit, minDaily)]

\* handleSaveStats: what it puts in stats
SaveStatsPlan(w, targetWeight, targetDays, newBmr) ==
    LET dailyDeficit == DailyDeficit(w, targetWeight, targetDays)
    IN [dailyDeficit |-> dailyDeficit, dailyGoalCalories |-> Max(newBmr - dailyDeficit, 1200)]

Genders == {"male", "female"}
ActivityLevels == {"sedentary", "light", "moderate", "active", "very_active"}
PlanWeights == {75, 90}
PlanTargets == {70, 74, 89}
PlanDays == {8, 30} \cup {60 * d : d \in 1..MaxPlanDays}
PlanHeights == {169, 170, 175}
PlanAges == {30, 35}
PlanBmrs == {1680, 1690, 1786, 2600}

PlanCalls ==
    {[fn |-> "plan", currentWeight |-> w, targetWeight |-> t, targetDays |-> d,
      height |-> h, age |-> 35, gender |-> g] :
        w \in PlanWeights, t \in PlanTargets, d \in PlanDays, h \in PlanHeights,
        g \in Genders}

BmrCalls ==
    {[fn |-> "bmr", weight |-> w, height |-> h, age |-> a, gender |-> g] :
        w \in PlanWeights, h \in PlanHeights, a \in PlanAges, g \in Genders}

TdeeCalls ==
    {[fn |-> "tdee", bmr |-> b, activityLevel |-> l] :
        b \in PlanBmrs, l \in ActivityLevels}

InitPlan ==
    /\ InitFasting
    /\ call \in {c \in PlanCalls : c.targetWeight < c.currentWeight}
                  \cup BmrCalls \cup TdeeCalls
    /\ ret = NoCall
    /\ InitHome(DefaultUser)

\* the plan of one form as each place computes it, the BMR being the form's
PlanAt(place) ==
    LET bmr == CalculateBMR(call.currentWeight, call.height, call.age, call.gender)
    IN /\ call.fn = "plan" /\ ret = NoCall
       /\ ret' = [fn |-> place,
                  value |->
                    CASE place = "PATCH /api/user/goals" ->
                           PatchGoalsPlan(call.currentWeight, call.targetWeight,
                                          call.targetDays, bmr)
                      [] place = "handleCompleteOnboarding" ->
                           OnboardingPlan(call.currentWeight, call.targetWeight,
                                          call.targetDays, bmr, call.gender)
                      [] place = "handleSaveStats" ->
                           SaveStatsPlan(call.currentWeight, call.targetWeight,
                                         call.targetDays, bmr)]
       /\ UNCHANGED <<fastingVars, energyVars, homeVars, call>>

CallPatchGoals == PlanAt("PATCH /api/user/goals")

CallOnboardingPlan == PlanAt("handleCompleteOnboarding")

CallSaveStatsPlan == PlanAt("handleSaveStats")

CallCalculateBMR ==
    /\ call.fn = "bmr" /\ ret = NoCall
    /\ ret' = [fn |-> "bmr",
               value |-> CalculateBMR(call.weight, call.height, call.age, call.gender)]
    /\ UNCHANGED <<fastingVars, energyVars, homeVars, call>>

CallCalculateTdee ==
    /\ call.fn = "tdee" /\ ret = NoCall
    /\ ret' = [fn |-> "tdee", value |-> CalculateTdee(call.bmr, call.activityLevel)]
    /\ UNCHANGED <<fastingVars, energyVars, homeVars, call>>

NextPlan ==
    \/ CallPatchGoals
    \/ CallOnboardingPlan
    \/ CallSaveStatsPlan
    \/ CallCalculateBMR
    \/ CallCalculateTdee

SpecPlan == InitPlan /\ [][NextPlan]_vars

(***************************************************************************)
(* Retention: recalculations over a table that already holds old rows      *)
(***************************************************************************)
MaxAwayDays == 2    \* days the clock may jump between two requests

LastDay == FirstDay + MaxAwayDays + 1    \* the last day the clock reaches

\* the dates of the rows the table may hold at the start: from two days
\* before the cut-off of the first day to the day after it
OldDates == (FirstDay - RetentionDays - 2)..(FirstDay - RetentionDays + 1)

StoredRow(date) ==
    [date |-> date, fedSeconds |-> 0, postAbsorptiveSeconds |-> 0,
     fatBurningSeconds |-> 0, deepKetosisSeconds |-> 0, autophagySeconds |-> 86400]

InitRetention ==
    /\ clock = FirstDay * DayMs + 10 * HourMs
    /\ tz \in TzOffsets
    /\ foodItems = {}
    /\ nextFoodId = 1
    /\ trackingStart \in {NULL, (FirstDay - RetentionDays - 2) * DayMs + 8 * HourMs}
    /\ \E dates \in SUBSET OldDates :
          /\ (FirstDay - RetentionDays - 2) \in dates
          /\ summaries = {StoredRow(d) : d \in dates}
    /\ lastPass = NoPass
    /\ prevPass = NoPass
    /\ passes = 0
    /\ changes = 0
    /\ call = NoCall
    /\ ret = NoCall
    /\ InitHome(DefaultUser)

\* the server's clock moves on by whole days while no request arrives
AwayDays(k) ==
    /\ (clock \div DayMs) + k <= LastDay
    /\ clock' = clock + k * DayMs
    /\ Changed
    /\ UNCHANGED <<tz, foodItems, nextFoodId, trackingStart, summaries>>
    /\ UNCHANGED <<pureVars, homeVars, energyVars>>

NextRetention ==
    \/ \E k \in 1..MaxAwayDays : AwayDays(k)
    \/ PostFood(NULL)
    \/ Recalculate

SpecRetention == InitRetention /\ [][NextRetention]_vars

(***************************************************************************)
(* Backfill: recalculations for a user with meals and no tracking start    *)
(***************************************************************************)
\* meals of the log at the start: the day before the 14-day window, its
\* first day, yesterday, and the last second of today
BackfillMealInstants ==
    {(FirstDay - RetentionDays) * DayMs + 20 * HourMs,
     (FirstDay - RetentionDays + 1) * DayMs + 8 * HourMs,
     (FirstDay - 1) * DayMs + 20 * HourMs,
     FirstDay * DayMs + DayMs - SecondMs}

\* the clock at the start: mid-morning, or within the last second of the day
BackfillClockInstants == {FirstDay * DayMs + 10 * HourMs, FirstDay * DayMs + DayMs - 500}

InitBackfill ==
    /\ clock \in BackfillClockInstants
    /\ tz \in TzOffsets
    /\ \E ts \in SUBSET BackfillMealInstants :
          /\ Cardinality(ts) <= MaxFoods
          /\ foodItems = {[id |-> Cardinality({u \in ts : u <= t}), timestamp |-> t] : t \in ts}
          /\ nextFoodId = Cardinality(ts) + 1
    /\ trackingStart = NULL
    /\ summaries = {}
    /\ lastPass = NoPass
    /\ prevPass = NoPass
    /\ passes = 0
    /\ changes = 0
    /\ call = NoCall
    /\ ret = NoCall
    /\ InitHome(DefaultUser)

NextBackfill ==
    \/ Recalculate
    \/ \E id \in 1..MaxFoods : DeleteFood(id)
    \/ PatchProfile(NULL)
    \/ \E k \in 1..MaxAwayDays : AwayDays(k)

SpecBackfill == InitBackfill /\ [][NextBackfill]_vars

(***************************************************************************)
(* Requests in flight: PATCH /api/user/update-balance served in any order  *)
(***************************************************************************)
\* the requests served so far, each with the row it found and the row it left
Served == IF ret = NoCall THEN <<>> ELSE ret.log

Without(s, i) == [k \in 1..(Len(s) - 1) |-> IF k < i THEN s[k] ELSE s[k + 1]]

\* the server handles the i-th request under way, from getUser to the
\* update, and the page sets stats from its response
ServeUpdateBalance(i) ==
    LET body == patches[i]
        updated == UpdateEnergyReserve(user, body.deltaCalories, body.tdee, clock)
    IN /\ user' = updated
       /\ stats' = [stats EXCEPT
                      !.cumulativeNetCalories = updated.cumulativeNetCalories,
                      !.lastBalanceUpdateDate = updated.lastBalanceUpdateDate]
       /\ patches' = Without(patches, i)
       /\ hist' = Seen("patch", body.deltaCalories)
       /\ ret' = [fn |-> "served",
                  log |-> Append(Served, [index |-> i, others |-> Len(patches) - 1,
                                          body |-> body, at |-> clock,
                                          before |-> user, after |-> updated])]
       /\ UNCHANGED <<fastingVars, homeVars, call, balanceAnchorValue,
                      balanceAnchorTimestamp, anchorInitialized, effect,
                      localStorage, budget>>

NextInFlight ==
    \/ Tick
    \/ LoadUserStats
    \/ \E d \in Deltas : FoodDelta(d)
    \/ \E i \in 1..Len(patches) : ServeUpdateBalance(i)

SpecInFlight == InitEnergy /\ [][NextInFlight]_vars

(***************************************************************************)
(* Restore: handleAddFood from its click to its updateEnergyReserve, with  *)
(* loads, saves and server responses in between                            *)
(***************************************************************************)
AddedCalories == {300}

\* handleAddFood is called in a render and awaits POST /api/food: what it
\* goes on with are the values of that render
ClickAddFood(calories) ==
    /\ anchorInitialized
    /\ IF call = NoCall THEN TRUE ELSE call.reloads # budget.reloads
    /\ budget.foods < MaxFoodEvents
    /\ budget' = [budget EXCEPT !.foods = @ + 1]
    /\ call' = [fn |-> "handleAddFood", calories |-> calories,
                balanceAnchorTimestamp |-> balanceAnchorTimestamp,
                stats |-> stats, reloads |-> budget.reloads]
    /\ hist' = Seen("click", calories)
    /\ UNCHANGED <<fastingVars, homeVars, ret, balanceAnchorValue, balanceAnchorTimestamp,
                   anchorInitialized, stats, effect, localStorage, user, patches>>

\* the response of POST /api/food: updateEnergyReserve(newFood.calories) of
\* the render of the click, up to its fetch; the updater of
\* setBalanceAnchorValue gets the value the state holds now
FoodAdded ==
    LET newValue == balanceAnchorValue - call.calories
        effectiveRate == JsOr(call.stats.dailyGoalCalories, call.stats.tdee)
    IN /\ call # NoCall /\ call.reloads = budget.reloads
       /\ balanceAnchorValue' = newValue
       /\ localStorage' = [stored |-> TRUE, value |-> newValue,
                           timestamp |-> call.balanceAnchorTimestamp,
                           storedTdee |-> call.stats.tdee,
                           storedGoalRate |-> effectiveRate]
       /\ patches' = Append(patches, [deltaCalories |-> call.calories,
                                      tdee |-> effectiveRate])
       /\ call' = NoCall
       /\ hist' = Seen("food", call.calories)
       /\ UNCHANGED <<fastingVars, homeVars, ret, balanceAnchorTimestamp,
                      anchorInitialized, stats, effect, user, budget>>

NextRestore ==
    \/ Tick
    \/ Save30s
    \/ LoadUserStats
    \/ Reload
    \/ \E c \in AddedCalories : ClickAddFood(c)
    \/ FoodAdded
    \/ PatchUpdateBalance

SpecRestore == InitEnergy /\ [][NextRestore]_vars

(***************************************************************************)
(* The pure functions under bounded inputs                                 *)
(***************************************************************************)
MaxAllocSteps == 40     \* half hours after the meal a window may reach
MaxStageHours == 20     \* whole hours since the last meal that are classified

PureEpoch == FirstDay * DayMs
AllocInstants == {PureEpoch + k * (HourMs \div 2) : k \in 0..MaxAllocSteps}
SomeDurations == [s \in DOMAIN ZeroDurations |-> 7 * SecondMs]
StageOffsets == {h * HourMs + e : h \in 0..MaxStageHours, e \in {0 - 1, 0, 1}}
                   \cup {(399 * HourMs) \div 100}

AllocateCalls ==
    [fn : {"allocate"}, lastMeal : {NULL, PureEpoch}, windowStart : AllocInstants,
     windowEnd : AllocInstants, result : {ZeroDurations, SomeDurations}]
StageCalls ==
    {[fn |-> "stage", lastMealTime |-> lastMealTime, now |-> PureEpoch + offset] :
        lastMealTime \in {NULL, PureEpoch}, offset \in StageOffsets}

InitPure ==
    /\ InitFasting
    /\ call \in AllocateCalls \cup StageCalls
    /\ ret = NoCall
    /\ InitHome(DefaultUser)

CallAllocate ==
    /\ call.fn = "allocate" /\ ret = NoCall
    /\ ret' = [fn |-> "allocate",
               value |-> AllocateFastingTimeWithOffset(call.lastMeal, call.windowStart,
                                                       call.windowEnd, call.result)]
    /\ UNCHANGED <<fastingVars, energyVars, homeVars, call>>

CallGetFastingStage ==
    /\ call.fn = "stage" /\ ret = NoCall
    /\ ret' = [fn |-> "stage", value |-> GetFastingStage(call.lastMealTime, call.now)]
    /\ UNCHANGED <<fastingVars, energyVars, homeVars, call>>

NextPure == CallAllocate \/ CallGetFastingStage

SpecPure == InitPure /\ [][NextPure]_vars

(***************************************************************************)
(* Properties                                                              *)
(***************************************************************************)
DaysOf(pass) == {pass.days[k] : k \in 1..Len(pass.days)}
RowsOf(pass) == [k \in 1..Len(pass.days) |-> pass.days[k].row]
RowSum(row) == row.fedSeconds + row.postAbsorptiveSeconds + row.fatBurningSeconds
                  + row.deepKetosisSeconds + row.autophagySeconds

\* a span of milliseconds in whole seconds, as a summary row holds durations
SpanSeconds(ms) == (ms + 500) \div 1000

ZeroMealDayAfterMeal(d) ==
    /\ Len(d.dayMeals) = 0
    /\ d.effectiveLastMealBefore # NULL
    /\ d.effectiveLastMealBefore < d.dayStart

\* C4: two recalculations in succession, with no request in between and the
\* clock at the same instant, return the same rows (dates and durations),
\* also when the first one backfills the tracking start.
C4_RecalculateIdempotent ==
    passes >= 2 => RowsOf(lastPass) = RowsOf(prevPass)

\* C5: for a day with no meal inside it and a last meal (or tracking start)
\* before its midnight, the five durations of the row sum to the seconds from
\* the day's start to its end (86400 for a past day, midnight to now today).
C5_ZeroMealDaySumsToSpan ==
    \A d \in DaysOf(lastPass) :
        ZeroMealDayAfterMeal(d) => RowSum(d.row) = SpanSeconds(d.dayEnd - d.dayStart)

\* C5 amended: the same, for every day but the tracking-start calendar day
\* (whose autophagy seconds are stored as 0).
C5_ZeroMealDaySumsToSpanOffStartDay ==
    \A d \in DaysOf(lastPass) :
        ZeroMealDayAfterMeal(d) /\ ~d.isTrackingStartDate
            => RowSum(d.row) = SpanSeconds(d.dayEnd - d.dayStart)

C5_Witness ==
    \E d \in DaysOf(lastPass), e \in DaysOf(lastPass) :
        /\ ZeroMealDayAfterMeal(d) /\ ~d.isTrackingStartDate /\ d.dayEnd # clock
        /\ d.row.autophagySeconds > 0 /\ d.row.fatBurningSeconds > 0
        /\ ZeroMealDayAfterMeal(e) /\ ~e.isTrackingStartDate /\ e.dayEnd = clock

\* C6: every row written has its five durations summing to at most 86400 s
\* and to the span covered, effective day start to day end.  Stated for the
\* rows whose autophagy seconds were stored as computed (the tracking-start
\* day's are stored as 0, C7).
C6_RowSumIsCoveredSpan ==
    \A d \in DaysOf(lastPass) :
        /\ RowSum(d.row) <= 86400
        /\ d.row.autophagySeconds = SpanSeconds(d.durations.autophagy)
              => RowSum(d.row) = SpanSeconds(d.dayEnd - d.effectiveDayStart)

\* C7: the row a recalculation produces for the calendar day of the user's
\* tracking start has autophagySeconds = 0.
C7_StartDayAutophagyZero ==
    passes >= 1 /\ trackingStart # NULL =>
        \A d \in DaysOf(lastPass) :
            d.dayStart = LocalMidnight(trackingStart) => d.row.autophagySeconds = 0

C7_Witness ==
    /\ passes >= 1 /\ trackingStart # NULL
    /\ \E d \in DaysOf(lastPass) :
          /\ d.dayStart = LocalMidnight(trackingStart)
          /\ d.durations.autophagy > 0
          /\ Len(d.dayMeals) > 0
    /\ \E d \in DaysOf(lastPass) : d.row.autophagySeconds > 0

\* C8: on the day that holds the tracking-start instant S, with no meal before
\* that day, the five durations sum to at most dayEnd - S, whatever meals the
\* day has, meals earlier than S on that day included.
C8_NoTimeBeforeTrackingStart ==
    passes >= 1 /\ trackingStart # NULL /\ ~lastPass.backfilled =>
        \A d \in DaysOf(lastPass) :
            /\ d.dayStart <= trackingStart /\ trackingStart <= d.dayEnd
            /\ d.lastMealBefore = NULL
            => RowSum(d.row) <= SpanSeconds(d.dayEnd - trackingStart)

FourHours == 4 * HourMs

\* the part of the first h milliseconds after a meal that lies in stage i of
\* {0, 4, 8, 12, 16, inf} hours
TimeInStage(i, h) ==
    IF i = 5 THEN Max(h - 4 * FourHours, 0)
    ELSE Min(Max(h - (i - 1) * FourHours, 0), FourHours)

AddedTo(s) == ret.value[s] - call.result[s]

\* C9: for lastMeal <= windowStart < windowEnd the allocation adds to each
\* stage the overlap of the window with the stage, so the amounts add up to
\* the window; lastMeal = T and [T+3h, T+9h) add 1h, 4h, 1h, 0, 0; a window
\* with windowEnd <= windowStart adds nothing.
C9_AllocationAddsOverlap ==
    ret.fn = "allocate" =>
        /\ call.windowEnd <= call.windowStart => ret.value = call.result
        /\ /\ call.lastMeal # NULL /\ call.lastMeal <= call.windowStart
           /\ call.windowStart < call.windowEnd
           => /\ \A i \in 1..5 :
                    AddedTo(stageNames[i])
                       = TimeInStage(i, call.windowEnd - call.lastMeal)
                            - TimeInStage(i, call.windowStart - call.lastMeal)
              /\ AddedTo("fed") + AddedTo("postAbsorptive") + AddedTo("fatBurning")
                    + AddedTo("deepKetosis") + AddedTo("autophagy")
                    = call.windowEnd - call.windowStart
        /\ /\ call.lastMeal = PureEpoch
           /\ call.windowStart = PureEpoch + 3 * HourMs
           /\ call.windowEnd = PureEpoch + 9 * HourMs
           => /\ AddedTo("fed") = HourMs
              /\ AddedTo("postAbsorptive") = 4 * HourMs
              /\ AddedTo("fatBurning") = HourMs
              /\ AddedTo("deepKetosis") = 0
              /\ AddedTo("autophagy") = 0

C9_Witness ==
    /\ ret.fn = "allocate"
    /\ call.lastMeal = PureEpoch
    /\ call.windowStart = PureEpoch + 3 * HourMs
    /\ call.windowEnd = PureEpoch + 9 * HourMs
    /\ call.result = SomeDurations
    /\ ret.value["postAbsorptive"] = 4 * HourMs + 7 * SecondMs

StageTable == <<"Fed", "Post-Absorptive", "Fat Burning", "Deep Ketosis", "Autophagy">>

\* C10: h hours since the last meal classify as Fed for 0 <= h < 4,
\* Post-Absorptive for 4 <= h < 8, Fat Burning for 8 <= h < 12, Deep Ketosis
\* for 12 <= h < 16, Autophagy from 16 on (3.99 -> Fed, 4.0 ->
\* Post-Absorptive, 16.0 -> Autophagy), and no meal as Awaiting Entry.
C10_StageClassification ==
    ret.fn = "stage" =>
        LET h == call.now - call.lastMealTime
        IN /\ call.lastMealTime = NULL => ret.value = "Awaiting Entry"
           /\ call.lastMealTime # NULL /\ h >= 0
                 => ret.value = StageTable[Min(h \div FourHours, 4) + 1]
           /\ call.lastMealTime # NULL /\ h = (399 * HourMs) \div 100 => ret.value = "Fed"
           /\ call.lastMealTime # NULL /\ h = 4 * HourMs => ret.value = "Post-Absorptive"
           /\ call.lastMealTime # NULL /\ h = 16 * HourMs => ret.value = "Autophagy"

C10_Witness ==
    /\ ret.fn = "stage"
    /\ call.lastMealTime # NULL
    /\ call.now - call.lastMealTime = 4 * HourMs
    /\ ret.value = "Post-Absorptive"

\* capBasis: the daily goal calories when set, else the TDEE
CapBasis(goal, tdee) == IF goal > 0 THEN goal ELSE tdee

\* C1: the balance shown right after a food delta is the balance shown right
\* before it minus the delta, on the client, and the balance the server
\* persists is its balance at that instant minus the delta, also when the
\* balance was at the cap just before (a removal at the cap staying at the cap).
C1_ReanchorSubtractsDelta ==
    /\ hist.event = "food"
          => ShownBalance = Min(hist.shown - hist.delta,
                                CapBasis(stats.dailyGoalCalories, stats.tdee))
    /\ hist.event = "patch"
          => user.cumulativeNetCalories
                = Min(hist.queryBefore - hist.delta,
                      CapBasis(user.dailyGoalCalories, hist.tdee))

\* C2: with capBasis > 0 the displayed balance is at most capBasis after any
\* ticks, food adds and removals, and every balance the server's
\* updateEnergyReserve persists is at most the cap.
C2_BalanceAtMostCap ==
    /\ CapBasis(stats.dailyGoalCalories, stats.tdee) > 0
          => ShownBalance <= CapBasis(stats.dailyGoalCalories, stats.tdee)
    /\ hist.event = "patch" /\ CapBasis(user.dailyGoalCalories, hist.tdee) > 0
          => user.cumulativeNetCalories <= CapBasis(user.dailyGoalCalories, hist.tdee)

C2_Witness ==
    /\ hist.event = "patch"
    /\ hist.uncapped > CapBasis(user.dailyGoalCalories, hist.tdee)
    /\ budget.foods = 2
    /\ anchorInitialized
    /\ CumulativeBalance(balanceAnchorValue, balanceAnchorTimestamp, stats, clock)
          > CapBasis(stats.dailyGoalCalories, stats.tdee)

\* C3: over an interval with no food added or removed the displayed balance
\* never decreases, whatever else happens in it: ticks, the 30 second save,
\* a restore from localStorage, a response of the server.
C3_NoDecreaseWithoutFood ==
    hist.event # "food" /\ hist.shownValid /\ anchorInitialized
        => ShownBalance >= hist.shown

\* C11: once no request is under way, the last meal the page uses for the
\* live stage is the latest timestamp of the food entries stored for the
\* user, and with no entry stored the stage is Awaiting Entry.
C11_LastMealIsLatestStored ==
    lastFetches = {} =>
        /\ GetLastMealTime = GetMostRecentFoodItem(foodItems)
        /\ foodItems = {} => GetFastingStage(GetLastMealTime, clock) = "Awaiting Entry"


(***************************************************************************)
(* The buffer allowance                                                    *)
(***************************************************************************)
\* goalOrTdee of the row a request found, in tenths of a calorie
GoalOrTdeeTenths == CapBasis(call.before.dailyGoalCalories, call.request.tdee) * 10

\* the whole number nearest to x tenths, a half going up
Nearest(x) == CHOOSE r \in 0..(x \div 10 + 1) : 10 * r - x <= 5 /\ x - 10 * r < 5

BufferOf(u) == <<u.bufferAmount, u.bufferForDate>>

Qualifying ==
    /\ call.fn = "buffer"
    /\ call.request.consumed < GoalOrTdeeTenths
    /\ call.request.consumed < call.request.tdee * 10

NonQualifying == call.fn = "buffer" /\ ~Qualifying

\* C12: a request with consumed < goalOrTdee and consumed < tdee stores the
\* amount round(goalOrTdee - consumed) for the day after the given date and
\* answers set = true with that amount and date; 1500 eaten against a goal of
\* 1800 and a TDEE of 2100 stores 300 for tomorrow.
C12_QualifyingSetsBuffer ==
    Qualifying =>
        LET amount == Nearest(GoalOrTdeeTenths - call.request.consumed)
            tomorrow == call.request.date + 1
        IN /\ BufferOf(user) = <<amount, tomorrow>>
           /\ ret.value.bufferSet
           /\ ret.value.bufferAmount = amount
           /\ ret.value.forDate = tomorrow
           /\ (call.request.consumed = 15000 /\ call.before.dailyGoalCalories = 1800
                 /\ call.request.tdee = 2100) => user.bufferAmount = 300

C12_Witness ==
    /\ Qualifying
    /\ call.request.consumed = 15000
    /\ call.before.dailyGoalCalories = 1800
    /\ call.request.tdee = 2100
    /\ ret.value.bufferSet
    /\ user.bufferForDate = call.request.date + 1

C12_WitnessRounded ==
    /\ Qualifying
    /\ call.request.consumed = 17995
    /\ call.before.dailyGoalCalories = 1800
    /\ user.bufferAmount = 1

C13_WitnessExceeded ==
    /\ NonQualifying
    /\ call.request.consumed = 22000
    /\ call.before.dailyGoalCalories = 1800
    /\ call.request.tdee = 2100
    /\ ret.value.reason = "exceeded_tdee"

\* C14: a non-qualifying request leaves bufferAmount and bufferForDate as they
\* were when the stored forDate is strictly later than the day after the
\* given date.
C14_LaterBufferKept ==
    (NonQualifying /\ call.before.bufferForDate # NULL
        /\ call.before.bufferForDate > call.request.date + 1) =>
        /\ BufferOf(user) = BufferOf(call.before)
        /\ user.bufferAmount # NULL

C14_Witness ==
    /\ NonQualifying
    /\ call.before.bufferForDate > call.request.date + 1
    /\ user.bufferAmount = 250

\* the fields of the answer the contract names
Outcome(body) == <<body.bufferSet, body.bufferAmount, body.forDate, body.reason>>

\* C15 as stated: the request made twice with the same inputs leaves the
\* stored buffer and returns the result that making it once does.
C15_RepeatSameResult ==
    (call.fn = "buffer" /\ call.repeated) =>
        /\ BufferOf(user) = BufferOf(call.first.user)
        /\ ret.value = call.first.body

\* C15: the request made twice with the same inputs leaves the stored buffer,
\* and returns the set flag, amount, date and reason, that making it once
\* does; the cleared flag is answered only by the request that cleared.
C15_RepeatSameOutcome ==
    (call.fn = "buffer" /\ call.repeated) =>
        /\ BufferOf(user) = BufferOf(call.first.user)
        /\ Outcome(ret.value) = Outcome(call.first.body)
        /\ ret.value.user = call.first.body.user

C15_Witness ==
    /\ call.fn = "buffer"
    /\ call.repeated
    /\ call.first.body.bufferCleared
    /\ ~ret.value.bufferCleared

C15_WitnessSet ==
    /\ call.fn = "buffer"
    /\ call.repeated
    /\ ret.value.bufferSet
    /\ call.first.body.bufferSet


\* C16: in every state of the page, also after midnight has passed in a
\* running session, the buffer the display adds to the goal is 0 unless the
\* stored bufferForDate is today's date.
C16_BufferOnlyForToday ==
    EffectiveBuffer # 0 => user.bufferForDate = FormatDateLocal(clock)


\* C17: when a goal is saved at the instant now, the balance is anchored again
\* at the value the display had just before, with the anchor's timestamp now:
\* the display changes by nothing but the clamp to the new cap, and burn at
\* the new rate counts from now only.
C17_GoalSaveReanchorsAtShown ==
    hist.event = "goal" =>
        /\ balanceAnchorTimestamp = clock
        /\ ShownBalance = Min(hist.shown, CapBasis(stats.dailyGoalCalories, stats.tdee))


\* C18: after a restart and the onboarding that follows it the balance is 0
\* anchored at midnight of the tracking start day, and no balance from before
\* is left in the page's anchor, in the localStorage entry or in the server's
\* cumulativeNetCalories.
C18_RestartReinitializes ==
    hist.event = "onboard" =>
        LET startDate == LocalMidnight(clock)
            rate == CapBasis(stats.dailyGoalCalories, stats.tdee)
            fromStart == Burn(clock - startDate, rate)
        IN /\ CumulativeBalance(balanceAnchorValue, balanceAnchorTimestamp, stats, clock)
                = fromStart
           /\ localStorage.stored =>
                localStorage.value + Burn(Max(0, clock - localStorage.timestamp), rate)
                    = fromStart
           /\ user.cumulativeNetCalories = 0
           /\ user.lastBalanceUpdateDate = StoreTimestamp(startDate)


\* C19: a food delta moves the anchor's value to the value before minus the
\* delta and leaves its timestamp, and when the PATCH for it fails the anchor
\* keeps that value and timestamp: nothing is rolled back.
C19_FailedPatchKeepsOptimistic ==
    [][/\ hist'.event = "food" =>
            /\ balanceAnchorValue' = balanceAnchorValue - hist'.delta
            /\ balanceAnchorTimestamp' = balanceAnchorTimestamp
       /\ hist'.event = "patchfailed" =>
            /\ balanceAnchorValue' = balanceAnchorValue
            /\ balanceAnchorTimestamp' = balanceAnchorTimestamp
            /\ localStorage' = localStorage]_vars

C19_Witness ==
    /\ hist.event = "patchfailed"
    /\ hist.delta = 300
    /\ localStorage.stored
    /\ localStorage.value = balanceAnchorValue
    /\ patches = <<>>
    /\ budget.foods = 1


\* C20: with a cap basis of 0 or less the burn rate is 0: the page's balance
\* and the balance the server's catch-up stores are what they are with no
\* time elapsed.
C20_NoBurnWithoutCapBasis ==
    (ret.fn # "none" /\ CapBasis(call.dailyGoalCalories, call.tdee) <= 0) =>
        ret.value = IF ret.fn = "cumulativeBalance" THEN call.anchorValue
                    ELSE Min(call.anchorValue,
                             CapBasis(call.dailyGoalCalories, call.tdee))


(***************************************************************************)
(* Biometrics and the goal plan                                            *)
(***************************************************************************)
\* the integer nearest to n / d, a half going up, for n >= 0 and d > 0
NearestQuotient(n, d) ==
    CHOOSE q \in 0..(n \div d + 1) : 2 * (q * d - n) <= d /\ 2 * (n - q * d) < d

\* the plan the contract gives for the form of the call
ContractPlan ==
    LET bmr == CalculateBMR(call.currentWeight, call.height, call.age, call.gender)
        dailyDeficit ==
            Min(NearestQuotient((call.currentWeight - call.targetWeight) * 7700,
                                call.targetDays), 1000)
        floor == IF call.gender = "female" THEN 1200 ELSE 1500
    IN [dailyDeficit |-> dailyDeficit, dailyGoalCalories |-> Max(bmr - dailyDeficit, floor)]

\* C21: every place that derives a goal plan computes dailyDeficit =
\* min(round((currentWeight - targetWeight) * 7700 / targetDays), 1000) and
\* dailyGoalCalories = max(BMR - dailyDeficit, floor), the floor 1200 for
\* female and 1500 for male, so that what PATCH /api/user/goals persists is
\* what the client computes for the same form.
C21_OnePlanEverywhere ==
    call.fn = "plan" /\ ret.fn # "none" => ret.value = ContractPlan

\* the BMR before rounding, in hundredths
MifflinStJeor100(weight, height, age, gender) ==
    1000 * weight + 625 * height - 500 * age
        + (IF gender = "male" THEN 500 ELSE 0 - 16100)

\* C22 as stated: bmr(75, 175, 30, male) returns 1680.
C22_BmrScenarioAsStated ==
    (ret.fn = "bmr" /\ call.weight = 75 /\ call.height = 175 /\ call.age = 30
        /\ call.gender = "male") => ret.value = 1680

\* C22: bmr is the Mifflin-St Jeor value rounded to the nearest integer and
\* tdee is round(bmr * multiplier); bmr(75, 175, 30, male) returns 1699 and
\* tdee(1680, "light") returns 2310.
C22_BmrAndTdee ==
    /\ ret.fn = "bmr" =>
          /\ ret.value = NearestQuotient(
                 MifflinStJeor100(call.weight, call.height, call.age, call.gender), 100)
          /\ (call.weight = 75 /\ call.height = 175 /\ call.age = 30
                /\ call.gender = "male") => ret.value = 1699
    /\ ret.fn = "tdee" =>
          /\ ret.value = NearestQuotient(
                 call.bmr * GetActivityMultiplier(call.activityLevel), 1000)
          /\ (call.bmr = 1680 /\ call.activityLevel = "light") => ret.value = 2310

C22_Witness ==
    /\ ret.fn = "bmr"
    /\ call.weight = 75 /\ call.height = 175 /\ call.age = 30 /\ call.gender = "male"
    /\ ret.value = 1699

C22_WitnessTdee ==
    /\ ret.fn = "tdee"
    /\ call.bmr = 1680 /\ call.activityLevel = "light"
    /\ ret.value = 2310

\* C23: a recalculation neither returns nor upserts a row for a calendar day
\* that lies entirely before the tracking-start day: every day of the response
\* starts at or after the tracking-start midnight, and every row the pass adds
\* or changes in the table is dated at or after the tracking-start day.
C23_NoRowBeforeTrackingStart ==
    [][passes' = passes + 1 /\ trackingStart' # NULL =>
          /\ \A d \in DaysOf(lastPass') : d.dayStart >= LocalMidnight(trackingStart')
          /\ \A r \in summaries' \ summaries :
                r.date >= ISODate(LocalMidnight(trackingStart'))]_vars
C23_Witness ==
    /\ lastPass.ran /\ trackingStart # NULL
    /\ DayStartOf(1, clock) < LocalMidnight(trackingStart)
    /\ Len(lastPass.days) > 0 /\ Len(lastPass.days) < RetentionDays
    /\ \A i \in 0..(RetentionDays - 1) :
          DayStartOf(i, clock) < LocalMidnight(trackingStart)
             => ~\E r \in summaries : r.date = ISODate(DayStartOf(i, clock))

\* C24: after a completed recalculation the table holds no row dated strictly
\* before today - 14 days, whatever rows it held before the pass.
C24_NoRowOlderThanRetention ==
    lastPass.ran => \A r \in summaries : ~(r.date < (clock \div DayMs) - RetentionDays)
C24_Witness ==
    /\ lastPass.ran
    /\ changes > 0
    /\ ~\E r \in summaries : r.date = FirstDay - RetentionDays - 2
    /\ \E r \in summaries : r.date = (clock \div DayMs) - RetentionDays
    /\ \E r \in summaries : r.date = clock \div DayMs

\* the meals of the log inside the 14-day window at the instant now: from
\* the midnight 13 days ago up to now
MealsInWindow(now, items) ==
    {f.timestamp : f \in {g \in items : /\ g.timestamp >= DayStartOf(RetentionDays - 1, now)
                                         /\ g.timestamp <= now}}

EarliestOf(instants) == CHOOSE t \in instants : \A u \in instants : t <= u

\* C29: a recalculation for a user with no tracking start and at least one
\* food entry inside the 14-day window sets the tracking start to the midnight
\* of the day of the earliest such meal, persists it, and returns the days
\* from that day to today.
C29_BackfillFromEarliestMeal ==
    [][/\ passes' = passes + 1
       /\ trackingStart = NULL
       /\ MealsInWindow(clock, foodItems) # {}
       => LET day == LocalMidnight(EarliestOf(MealsInWindow(clock, foodItems)))
          IN /\ trackingStart' = day
             /\ {d.dayStart : d \in DaysOf(lastPass')}
                   = {DayStartOf(i, clock) : i \in {j \in 0..(RetentionDays - 1) :
                                                       DayStartOf(j, clock) >= day}}]_vars
C29_WitnessBackfilled ==
    /\ lastPass.ran /\ lastPass.backfilled
    /\ trackingStart = DayStartOf(RetentionDays - 1, clock)
    /\ Len(lastPass.days) = RetentionDays
    /\ \E f \in foodItems : f.timestamp < trackingStart

\* the food rows a step inserts
AddedFood == foodItems' \ foodItems

\* C30: a food add (POST /api/food) sets the tracking start to the stored
\* timestamp of the entry it inserts when the user had none, and leaves an
\* existing tracking start as it was, in every sequence of food adds.
C30_AddSetsTrackingStartOnlyWhenAbsent ==
    [][nextFoodId' = nextFoodId + 1 =>
          \E f \in AddedFood :
             /\ AddedFood = {f}
             /\ trackingStart = NULL => trackingStart' = f.timestamp
             /\ trackingStart # NULL => trackingStart' = trackingStart]_vars
C30_Witness ==
    /\ \E f \in foodItems : f.id = 1 /\ f.timestamp = trackingStart
    /\ \E g \in foodItems : g.id = 2 /\ g.timestamp # trackingStart

\* C25: the table holds at most one summary row per (user, date) after any
\* number of recalculations, also when the requests for them were under way at
\* the same time (the server runs them one after the other).
C25_OneRowPerDate ==
    \A r \in summaries : \A q \in summaries : r.date = q.date => r = q
C25_Witness ==
    /\ passes = 2
    /\ Len(lastPass.days) >= 2
    /\ RowsOf(lastPass) # RowsOf(prevPass)
    /\ Cardinality(summaries) = Len(lastPass.days)

\* one update run on its own at the instant at: the balance it persists
SerialStep(balance, lastUpdate, goal, body, at) ==
    LET since == IF lastUpdate = NULL THEN 0 ELSE Max(0, at - lastUpdate)
        burned == ((since \div 1000) * body.tdee) \div 86400
    IN Min(balance + burned - body.deltaCalories, CapBasis(goal, body.tdee))

\* C28: of two update-balance requests under way at the same time, the
\* balance persisted after both is the one obtained by running the two
\* updates one after the other, in the order the server took them: both
\* deltas are in it.
C28_BothDeltasPersisted ==
    \A k \in 2..Len(Served) :
        LET first == Served[k - 1]
            second == Served[k]
            afterFirst == SerialStep(first.before.cumulativeNetCalories,
                                     first.before.lastBalanceUpdateDate,
                                     first.before.dailyGoalCalories, first.body, first.at)
        IN first.others >= 1 =>
              second.after.cumulativeNetCalories
                 = SerialStep(afterFirst, (first.at \div 1000) * 1000,
                              first.before.dailyGoalCalories, second.body, second.at)
C28_Witness ==
    /\ Len(Served) = 2
    /\ patches = <<>>
    /\ Served[1].others = 1 /\ Served[1].index = 2
    /\ Served[1].body.deltaCalories = 300 /\ Served[2].body.deltaCalories = 300
    /\ Served[1].at < Served[2].at
    /\ Served[1].before.lastBalanceUpdateDate # NULL
    /\ user.cumulativeNetCalories
          = Served[1].before.cumulativeNetCalories - 600
               + Burn(Served[2].at - Served[1].before.lastBalanceUpdateDate,
                      Served[1].body.tdee)

\* C26: once a food add or removal has been applied to the in-memory anchor,
\* every later write of the fluxcal_energy_balance item stores the value and
\* the timestamp of the in-memory anchor as it is after the write.
C26_StoredItemIsCurrentAnchor ==
    [][budget.foods >= 1 /\ localStorage' # localStorage =>
          /\ localStorage'.value = balanceAnchorValue'
          /\ localStorage'.timestamp = balanceAnchorTimestamp']_vars

\* rate x elapsed, in whole calories
BurnOver(from, to, rate) == (((Max(0, to - from)) \div 1000) * rate) \div 86400

\* the item a step writes is an anchor the page holds or held: a value
\* together with the instant that value is anchored at
StoresHeldAnchor ==
    <<localStorage'.value, localStorage'.timestamp>>
        \in {<<balanceAnchorValue', balanceAnchorTimestamp'>>,
             <<balanceAnchorValue, balanceAnchorTimestamp>>,
             <<effect.balanceAnchorValue, effect.balanceAnchorTimestamp>>}

\* C27: a restore at T sets the anchor to (stored value + rate x (T - stored
\* timestamp), T), from the localStorage item or else from the server's
\* anchor, and no write of the item stores a value that holds the burn up to
\* one instant together with an earlier instant, so that no later restore adds
\* the burn of an interval a second time.
C27_BurnAddedOnce ==
    [][/\ hist'.event = "load" /\ anchorInitialized' /\ user.weight # NULL
          /\ localStorage.stored =>
             /\ balanceAnchorTimestamp' = clock
             /\ balanceAnchorValue'
                   = localStorage.value
                        + BurnOver(localStorage.timestamp, clock,
                                   CapBasis(user.dailyGoalCalories, localStorage.storedGoalRate))
       /\ hist'.event = "load" /\ anchorInitialized' /\ user.weight # NULL
          /\ ~localStorage.stored /\ user.lastBalanceUpdateDate # NULL =>
             /\ balanceAnchorTimestamp' = clock
             /\ balanceAnchorValue'
                   = user.cumulativeNetCalories
                        + BurnOver(user.lastBalanceUpdateDate, clock,
                                   CapBasis(user.dailyGoalCalories, UserTdee))
       /\ localStorage' # localStorage => StoresHeldAnchor]_vars
====
